---- MODULE Spec2Model ----
(***************************************************************************)
(* Model of the OASIS star-cluster visualizer: SceneManager (camera state  *)
(* machine, picking, tour, reload), StarSystem (visibility, hover) and     *)
(* UIController (filter toggles).                                          *)
(*                                                                         *)
(* Units: clock values are milliseconds, camera angles are thousandths of  *)
(* a degree.                                                               *)
(***************************************************************************)
EXTENDS Integers, Sequences, FiniteSets, TLC

VARIABLES
    starSystems,              \* SceneManager.starSystems: sequence of StarSystem entities
    generation,               \* number of addStarSystems calls so far (entity identity)
    hoveredSystem,            \* SceneManager.hoveredSystem (entity id or NoSystem)
    selectedSystem,           \* SceneManager.selectedSystem
    autoRotate,               \* SceneManager.autoRotate
    userHasInteracted,        \* SceneManager.userHasInteracted
    autoRotateSystemIndex,    \* SceneManager.autoRotateSystemIndex (0-based)
    autoRotateSystemTimer,    \* SceneManager.autoRotateSystemTimer
    currentAutoRotateSystem,  \* SceneManager.currentAutoRotateSystem
    clock,                    \* THREE.Clock elapsed time read by the latest frame
    cameraAngle,              \* rotation of the camera offset about the Y axis
    filters,                  \* UIController.filters
    animationId,              \* SceneManager.animationId: handle of the latest frame request
    frameCallbacks,           \* handles of the frame callbacks the browser holds
    disposed,                 \* dispose() has been called
    combinedData,             \* main.js combinedData: the loaded systems, or NoData
    expeditionRoute,          \* main.js expeditionRoute: the route overlay built last, or NoRoute
    sceneRoutes,              \* the route overlays among the children of the main.js scene
    routeData,                \* the waypoint list handed to createRouteVisualization last
    routeVisible,             \* main.js expeditionRoute.visible
    markerVisible,            \* the visible flag of each marker of expeditionRoute
    initAt,                   \* main.js init(): the await at which it is suspended
    fetchState,               \* the state of each request init() has made
    fetched,                  \* what the fulfilled requests of Promise.all delivered
    loadingScreen,            \* the loading screen: shown, hidden, or showing the error text
    SPECIAL_SYSTEMS,          \* main.js SPECIAL_SYSTEMS: the special systems by name
    stars,                    \* the star meshes among the children of the main.js scene
    particlePositions,        \* main.js particlePositions
    particleData,             \* main.js particleData
    particleSystem,           \* main.js particleSystem: the point cloud
    sceneLabels,              \* the region label sprites among the children of the main.js scene
    regionLabels,             \* main.js regionLabels: the keys of the Map, in insertion order
    showUnclaimedSystems,     \* main.js showUnclaimedSystems
    showExpeditionRoute,      \* main.js showExpeditionRoute
    infoPanel,                \* the record the info panel shows
    csvRecords,               \* CSVParser: the records of the text handed to parseCSV last
    parserData,               \* CSVParser.data
    events                    \* the hover, callback and render calls made by the handler that ran last

vars == <<starSystems, generation, hoveredSystem, selectedSystem, autoRotate,
          userHasInteracted, autoRotateSystemIndex, autoRotateSystemTimer,
          currentAutoRotateSystem, clock, cameraAngle, filters,
          animationId, frameCallbacks, disposed,
          combinedData, expeditionRoute, sceneRoutes, routeData,
          routeVisible, markerVisible,
          initAt, fetchState, fetched, loadingScreen, SPECIAL_SYSTEMS, stars,
          particlePositions, particleData, particleSystem, sceneLabels,
          regionLabels, showUnclaimedSystems, showExpeditionRoute, infoPanel,
          csvRecords, parserData, events>>

\* the scene manager and the filter panel
sceneVars == <<starSystems, generation, hoveredSystem, selectedSystem, autoRotate,
               userHasInteracted, autoRotateSystemIndex, autoRotateSystemTimer,
               currentAutoRotateSystem, clock, cameraAngle, filters,
               animationId, frameCallbacks, disposed>>

\* the expedition route of main.js
routeVars == <<combinedData, expeditionRoute, sceneRoutes, routeData,
               routeVisible, markerVisible>>

\* the page of main.js: its load, its scene and its toggles
pageVars == <<initAt, fetchState, fetched, loadingScreen, SPECIAL_SYSTEMS, stars,
              particlePositions, particleData, particleSystem, sceneLabels,
              regionLabels, showUnclaimedSystems, showExpeditionRoute, infoPanel>>

\* the CSV parser
parserVars == <<csvRecords, parserData>>

\* what the scene manager and the filter panel leave alone
otherVars == <<routeVars, parserVars, pageVars>>

\* the render-loop schedule
loopVars == <<animationId, frameCallbacks, disposed>>

----------------------------------------------------------------------------
\* Bounds of the model

MaxSystems == 2      \* systems per catalog handed to addStarSystems
MaxCatalog == 3      \* systems per catalog in the filter specification
MaxReloads == 2      \* calls of addStarSystems
MaxToggles == 1      \* toggles the user operates (the first MaxToggles of the four)
MaxClock == 8000     \* clock value of the last frame
MaxOrbitClock == 200 \* clock value of the last frame in the orbit specification
MaxDist == 2         \* intersection distances of a ray
MaxWaypoints == 2    \* waypoints of a route list
MaxRouteLoads == 2   \* route overlays built by createRouteVisualization
MaxRows == 2         \* rows of a catalog text handed to parseCSV
MaxText == 3         \* characters of a cell that takes every short text
MaxLoaded == 2       \* systems of the catalog init() loads
MaxStops == 1        \* waypoints of the route list init() loads
MaxAnchors == 1      \* rows of the anchor table init() loads
MaxCsvRows == 3      \* rows of the catalog d3.csv loads
MaxColored == 1      \* systems whose colour is determined together

\* time between two frames: a stalled render loop, and a 60 Hz / 30 Hz display
FrameDeltas == {2000, 4000}
DisplayFrameDeltas == {16, 33}

----------------------------------------------------------------------------
\* Program constants

autoRotateSpeed == 8
autoRotateSystemInterval == 3000
ApproxFrameDelta == 16
FullTurn == 360000

FilterKeys == {"showClaimed", "showUnclaimed", "showPortComplete", "showPortIncomplete"}

DefaultFilters ==
    [showClaimed |-> TRUE, showUnclaimed |-> TRUE,
     showPortComplete |-> TRUE, showPortIncomplete |-> TRUE]

ShortcutKey(k) ==
    CASE k = 1 -> "showClaimed"
      [] k = 2 -> "showUnclaimed"
      [] k = 3 -> "showPortComplete"
      [] k = 4 -> "showPortIncomplete"

----------------------------------------------------------------------------
\* Entities

NoSystem == <<0, 0>>

SystemData == [isClaimed : BOOLEAN, primaryPortComplete : BOOLEAN]

CatalogsUpTo(n) == UNION {[1..k -> SystemData] : k \in 0..n}

\* determineColor() testing the port before the claim
determineColor_PortFirst(isClaimed, primaryPortComplete) ==
    IF primaryPortComplete THEN "0x00ff88"
    ELSE IF ~isClaimed THEN "0xff4444"
    ELSE "0xffaa00"

\* StarSystem.determineColor()
determineColor(isClaimed, primaryPortComplete) ==
    IF ~isClaimed THEN "0xff4444"
    ELSE IF primaryPortComplete THEN "0x00ff88"
    ELSE "0xffaa00"

StarSystem(systemData, id) ==
    [id |-> id,
     data |-> systemData,
     isClaimed |-> systemData.isClaimed,
     primaryPortComplete |-> systemData.primaryPortComplete,
     isVisible |-> TRUE,
     isHovered |-> FALSE,
     color |-> determineColor(systemData.isClaimed, systemData.primaryPortComplete)]

\* Calls made by a handler, in order
Ev(type, sys, flag, f) == [type |-> type, sys |-> sys, flag |-> flag, filters |-> f]

SysEv(type, sys, flag) == Ev(type, sys, flag, DefaultFilters)

HoverEnd(id) == SysEv("setHovered", id, FALSE)
HoverStart(id) == SysEv("setHovered", id, TRUE)
HoverCallback(id) == SysEv("onSystemHover", id, TRUE)

setHovered(systems, id, hovered) ==
    [i \in DOMAIN systems |->
        IF systems[i].id = id
        THEN [systems[i] EXCEPT !.isHovered = hovered]
        ELSE systems[i]]

setVisibility(system, visible) == [system EXCEPT !.isVisible = visible]

\* updateVisibility with the port filters applied to unclaimed systems too
updateVisibility_PortFiltersForAll(system, f) ==
    LET v1 == IF system.isClaimed /\ ~f.showClaimed THEN FALSE ELSE TRUE
        v2 == IF ~system.isClaimed /\ ~f.showUnclaimed THEN FALSE ELSE v1
        v3 == IF system.primaryPortComplete /\ ~f.showPortComplete
              THEN FALSE ELSE v2
        v4 == IF ~system.primaryPortComplete /\ ~f.showPortIncomplete
              THEN FALSE ELSE v3
    IN  setVisibility(system, v4)

updateVisibility(system, f) ==
    LET v1 == IF system.isClaimed /\ ~f.showClaimed THEN FALSE ELSE TRUE
        v2 == IF ~system.isClaimed /\ ~f.showUnclaimed THEN FALSE ELSE v1
        v3 == IF system.isClaimed /\ system.primaryPortComplete /\ ~f.showPortComplete
              THEN FALSE ELSE v2
        v4 == IF system.isClaimed /\ ~system.primaryPortComplete /\ ~f.showPortIncomplete
              THEN FALSE ELSE v3
    IN  setVisibility(system, v4)

updateSystemVisibility(systems, f) ==
    [i \in DOMAIN systems |-> updateVisibility(systems[i], f)]

getVisibleSystemStats(systems) ==
    LET visible == {i \in DOMAIN systems : systems[i].isVisible}
        claimed == {i \in visible : systems[i].isClaimed}
        portComplete == {i \in visible : systems[i].primaryPortComplete}
    IN  [total |-> Cardinality(visible),
         claimed |-> Cardinality(claimed),
         unclaimed |-> Cardinality(visible) - Cardinality(claimed),
         portComplete |-> Cardinality(portComplete),
         portIncomplete |-> Cardinality(claimed) - Cardinality(portComplete)]

\* main.js before its data is loaded, and before a route is built
NoData == <<>>
NoRoute == [id |-> 0, line |-> <<>>, markers |-> <<>>]

\* the requests of main.js init(): the font, the special-systems table, and
\* the four loads handed to Promise.all (the catalog, the expedition sheets,
\* the route list and the anchor table)
Sources == {"font", "special", "systems", "expedition", "route", "anchors"}
DataSources == {"systems", "expedition", "route", "anchors"}

\* main.js particleSystem before initParticleSystem
NoParticleSystem ==
    [created |-> FALSE, visible |-> FALSE, position |-> <<>>, particleData |-> <<>>]

\* updateInfoPanel(null)
NoInfo == [isNull |-> TRUE, name |-> <<>>]

\* window.requestAnimationFrame: the handle given to the callback requested
\* by the frame that reads the clock value time; handles are positive and no
\* two requests get the same one
requestAnimationFrame(time) == time + 1

\* window.cancelAnimationFrame
cancelAnimationFrame(callbacks, handle) == callbacks \ {handle}

----------------------------------------------------------------------------
\* State after the constructor: init() has run the first frame, which
\* requested the second. The page of main.js has run its script: init() has
\* created the empty scene and waits for the font
Init ==
    /\ starSystems = <<>>
    /\ generation = 0
    /\ hoveredSystem = NoSystem
    /\ selectedSystem = NoSystem
    /\ autoRotate = TRUE
    /\ userHasInteracted = FALSE
    /\ autoRotateSystemIndex = 0
    /\ autoRotateSystemTimer = 0
    /\ currentAutoRotateSystem = NoSystem
    /\ clock = 0
    /\ cameraAngle = (autoRotateSpeed * ApproxFrameDelta) % FullTurn
    /\ filters = DefaultFilters
    /\ animationId = requestAnimationFrame(0)
    /\ frameCallbacks = {requestAnimationFrame(0)}
    /\ disposed = FALSE
    /\ combinedData = NoData
    /\ expeditionRoute = NoRoute
    /\ sceneRoutes = {}
    /\ routeData = <<>>
    /\ routeVisible = FALSE
    /\ markerVisible = <<>>
    /\ initAt = "font"
    /\ fetchState = [source \in Sources |->
                        IF source = "font" THEN "pending" ELSE "idle"]
    /\ fetched = [source \in Sources |-> <<>>]
    /\ loadingScreen = "shown"
    /\ SPECIAL_SYSTEMS = <<>>
    /\ stars = <<>>
    /\ particlePositions = <<>>
    /\ particleData = <<>>
    /\ particleSystem = NoParticleSystem
    /\ sceneLabels = <<>>
    /\ regionLabels = <<>>
    /\ showUnclaimedSystems = FALSE
    /\ showExpeditionRoute = TRUE
    /\ infoPanel = NoInfo
    /\ csvRecords = <<>>
    /\ parserData = <<>>
    /\ events = <<>>

----------------------------------------------------------------------------
\* SceneManager: interaction listeners

AutoRotateCallback == SysEv("onAutoRotateStateChange", NoSystem, FALSE)

\* controls 'start' listener (drag start, wheel, touch start)
OnControlsStart ==
    /\ IF autoRotate
       THEN /\ userHasInteracted' = TRUE
            /\ autoRotate' = FALSE
            /\ events' = <<AutoRotateCallback>>
       ELSE /\ UNCHANGED <<userHasInteracted, autoRotate>>
            /\ events' = <<>>
    /\ UNCHANGED <<starSystems, generation, hoveredSystem, selectedSystem,
                   autoRotateSystemIndex, autoRotateSystemTimer,
                   currentAutoRotateSystem, clock, cameraAngle, filters>>
    /\ UNCHANGED <<loopVars, otherVars>>

\* the mousedown listener recording the interaction without stopping the
\* auto-rotation
OnMouseDown_KeepsAutoRotate ==
    /\ IF autoRotate /\ ~userHasInteracted
       THEN /\ userHasInteracted' = TRUE
            /\ autoRotate' = autoRotate
            /\ events' = <<AutoRotateCallback>>
       ELSE /\ UNCHANGED <<userHasInteracted, autoRotate>>
            /\ events' = <<>>
    /\ UNCHANGED <<starSystems, generation, hoveredSystem, selectedSystem,
                   autoRotateSystemIndex, autoRotateSystemTimer,
                   currentAutoRotateSystem, clock, cameraAngle, filters>>
    /\ UNCHANGED <<loopVars, otherVars>>

\* canvas 'mousedown' listener
OnMouseDown ==
    /\ IF autoRotate /\ ~userHasInteracted
       THEN /\ userHasInteracted' = TRUE
            /\ autoRotate' = FALSE
            /\ events' = <<AutoRotateCallback>>
       ELSE /\ UNCHANGED <<userHasInteracted, autoRotate>>
            /\ events' = <<>>
    /\ UNCHANGED <<starSystems, generation, hoveredSystem, selectedSystem,
                   autoRotateSystemIndex, autoRotateSystemTimer,
                   currentAutoRotateSystem, clock, cameraAngle, filters>>
    /\ UNCHANGED <<loopVars, otherVars>>

----------------------------------------------------------------------------
\* SceneManager: picking

\* A ray gives, for each entity, the distance at which it meets the entity's
\* sphere, or 0 when it misses it
Rays(systems) == [DOMAIN systems -> 0..MaxDist]

Infinity == MaxDist + 1

\* the meshes handed to the raycaster
PickMeshes(systems) == {i \in DOMAIN systems : systems[i].isVisible}

RECURSIVE SortByDistance(_, _)
SortByDistance(hit, ray) ==
    IF hit = {} THEN <<>>
    ELSE LET m == CHOOSE i \in hit :
                    \A j \in hit : ray[i] < ray[j] \/ (ray[i] = ray[j] /\ i <= j)
         IN  <<m>> \o SortByDistance(hit \ {m}, ray)

\* raycaster.intersectObjects(meshes, false): the hits, nearest first
intersectObjects(systems, meshes, ray) ==
    SortByDistance({i \in meshes : ray[i] > 0}, ray)

RECURSIVE ClosestVisible(_, _, _, _, _, _)
ClosestVisible(systems, ray, intersects, k, newHovered, closestDistance) ==
    IF k > Len(intersects) THEN newHovered
    ELSE LET i == intersects[k]
         IN  IF systems[i].isVisible /\ ray[i] < closestDistance
             THEN ClosestVisible(systems, ray, intersects, k + 1, systems[i].id, ray[i])
             ELSE ClosestVisible(systems, ray, intersects, k + 1, newHovered, closestDistance)

newHoveredSystem(systems, ray) ==
    ClosestVisible(systems, ray,
                   intersectObjects(systems, PickMeshes(systems), ray),
                   1, NoSystem, Infinity)

\* the hover-state update without the hover-end of the previous target
UpdateHoverState_NoHoverEnd(systems, hovered, newHovered) ==
    IF newHovered # hovered
    THEN [systems |-> IF newHovered # NoSystem
                      THEN setHovered(systems, newHovered, TRUE) ELSE systems,
          hovered |-> newHovered,
          events |-> IF newHovered # NoSystem
                     THEN <<HoverStart(newHovered), HoverCallback(newHovered)>>
                     ELSE <<>>]
    ELSE [systems |-> systems, hovered |-> hovered, events |-> <<>>]

\* the hover-state update at the end of onMouseMove
UpdateHoverState(systems, hovered, newHovered) ==
    IF newHovered # hovered
    THEN LET cleared == IF hovered # NoSystem
                        THEN setHovered(systems, hovered, FALSE) ELSE systems
             endEv == IF hovered # NoSystem THEN <<HoverEnd(hovered)>> ELSE <<>>
             startEv == IF newHovered # NoSystem
                        THEN <<HoverStart(newHovered), HoverCallback(newHovered)>>
                        ELSE <<>>
         IN  [systems |-> IF newHovered # NoSystem
                          THEN setHovered(cleared, newHovered, TRUE) ELSE cleared,
              hovered |-> newHovered,
              events |-> endEv \o startEv]
    ELSE [systems |-> systems, hovered |-> hovered, events |-> <<>>]

\* canvas 'mousemove' listener; ignored during auto-rotation
OnMouseMove(ray) ==
    /\ ~(autoRotate /\ ~userHasInteracted)
    /\ LET r == UpdateHoverState(starSystems, hoveredSystem,
                                 newHoveredSystem(starSystems, ray))
       IN  /\ starSystems' = r.systems
           /\ hoveredSystem' = r.hovered
           /\ events' = r.events
    /\ UNCHANGED <<generation, selectedSystem, autoRotate, userHasInteracted,
                   autoRotateSystemIndex, autoRotateSystemTimer,
                   currentAutoRotateSystem, clock, cameraAngle, filters>>
    /\ UNCHANGED <<loopVars, otherVars>>

----------------------------------------------------------------------------
\* SceneManager: reload

\* clearStarSystems: every entity is removed from the scene and disposed, the
\* hover and selection references are dropped
clearStarSystems(systems) ==
    [systems |-> <<>>,
     hovered |-> NoSystem,
     selected |-> NoSystem]

\* positionCameraForCluster: the camera goes back to its reference direction
\* from the cluster centre unless the scene is empty
positionCameraForCluster(systems, angle) ==
    IF Len(systems) = 0 THEN angle ELSE 0

addStarSystems(systemsData) ==
    /\ generation < MaxReloads
    /\ LET c == clearStarSystems(starSystems)
           gen == generation + 1
           created == [i \in DOMAIN systemsData |-> StarSystem(systemsData[i], <<gen, i>>)]
       IN  /\ starSystems' = c.systems \o created
           /\ generation' = gen
           /\ hoveredSystem' = c.hovered
           /\ selectedSystem' = c.selected
           /\ cameraAngle' = positionCameraForCluster(created, cameraAngle)
           /\ events' = <<>>
    /\ UNCHANGED <<autoRotate, userHasInteracted, autoRotateSystemIndex,
                   autoRotateSystemTimer, currentAutoRotateSystem, clock, filters>>
    /\ UNCHANGED <<loopVars, otherVars>>

----------------------------------------------------------------------------
\* SceneManager: render loop

\* the tour advancing at every frame, whatever the time since the last advance
updateAutoRotateSystemDisplay_NoDwell(systems, index, timer, current, time) ==
    IF Len(systems) = 0
    THEN [systems |-> systems, index |-> index, timer |-> timer,
          current |-> current, events |-> <<>>]
    ELSE LET cleared == IF current # NoSystem
                        THEN setHovered(systems, current, FALSE) ELSE systems
             endEv == IF current # NoSystem THEN <<HoverEnd(current)>> ELSE <<>>
             next == (index + 1) % Len(systems)
             shown == systems[next + 1].isVisible
         IN  [systems |-> IF shown
                          THEN setHovered(cleared, systems[next + 1].id, TRUE)
                          ELSE cleared,
              index |-> next,
              timer |-> time,
              current |-> systems[next + 1].id,
              events |-> endEv \o
                         (IF shown
                          THEN <<HoverStart(systems[next + 1].id),
                                 HoverCallback(systems[next + 1].id)>>
                          ELSE <<>>)]

\* The tour: updateAutoRotateSystemDisplay(time)
updateAutoRotateSystemDisplay(systems, index, timer, current, time) ==
    IF Len(systems) = 0
    THEN [systems |-> systems, index |-> index, timer |-> timer,
          current |-> current, events |-> <<>>]
    ELSE IF time - timer > autoRotateSystemInterval
    THEN LET cleared == IF current # NoSystem
                        THEN setHovered(systems, current, FALSE) ELSE systems
             endEv == IF current # NoSystem THEN <<HoverEnd(current)>> ELSE <<>>
             next == (index + 1) % Len(systems)
             shown == systems[next + 1].isVisible
         IN  [systems |-> IF shown
                          THEN setHovered(cleared, systems[next + 1].id, TRUE)
                          ELSE cleared,
              index |-> next,
              timer |-> time,
              current |-> systems[next + 1].id,
              events |-> endEv \o
                         (IF shown
                          THEN <<HoverStart(systems[next + 1].id),
                                 HoverCallback(systems[next + 1].id)>>
                          ELSE <<>>)]
    ELSE [systems |-> systems, index |-> index, timer |-> timer,
          current |-> current, events |-> <<>>]

\* the rotation applied by one frame of auto-rotation
OrbitStep(angle) == (angle + autoRotateSpeed * ApproxFrameDelta) % FullTurn

\* the else branch of animate dropping the reference without a hover-end
ClearAutoRotateDisplay_KeepsHighlight(systems, current) ==
    [systems |-> systems, current |-> NoSystem, events |-> <<>>]

\* the else branch of animate: the tour highlight is cleared
ClearAutoRotateDisplay(systems, current) ==
    IF current # NoSystem
    THEN [systems |-> setHovered(systems, current, FALSE),
          current |-> NoSystem,
          events |-> <<HoverEnd(current)>>]
    ELSE [systems |-> systems, current |-> current, events |-> <<>>]

RenderEv == SysEv("render", NoSystem, TRUE)
OrbitEv == SysEv("orbitStep", NoSystem, TRUE)

\* one animation frame, delta milliseconds after the previous one: the browser
\* runs a frame callback it holds; the frame first requests the next one
animate(delta) ==
    /\ clock + delta <= MaxClock
    /\ clock' = clock + delta
    /\ \E handle \in frameCallbacks :
          /\ animationId' = requestAnimationFrame(clock + delta)
          /\ frameCallbacks' = (frameCallbacks \ {handle})
                                   \cup {requestAnimationFrame(clock + delta)}
    /\ UNCHANGED <<disposed, otherVars>>
    /\ IF autoRotate /\ ~userHasInteracted
       THEN LET t == updateAutoRotateSystemDisplay(starSystems, autoRotateSystemIndex,
                        autoRotateSystemTimer, currentAutoRotateSystem, clock + delta)
            IN  /\ cameraAngle' = OrbitStep(cameraAngle)
                /\ starSystems' = t.systems
                /\ autoRotateSystemIndex' = t.index
                /\ autoRotateSystemTimer' = t.timer
                /\ currentAutoRotateSystem' = t.current
                /\ events' = <<OrbitEv>> \o t.events \o <<RenderEv>>
       ELSE LET c == ClearAutoRotateDisplay(starSystems, currentAutoRotateSystem)
            IN  /\ starSystems' = c.systems
                /\ currentAutoRotateSystem' = c.current
                /\ events' = c.events \o <<RenderEv>>
                /\ UNCHANGED <<cameraAngle, autoRotateSystemIndex, autoRotateSystemTimer>>
    /\ UNCHANGED <<generation, hoveredSystem, selectedSystem, autoRotate,
                   userHasInteracted, filters>>

----------------------------------------------------------------------------
\* SceneManager: teardown

\* dispose() leaving the requested frame callback with the browser
dispose_NoCancel ==
    /\ LET c == clearStarSystems(starSystems)
       IN  /\ starSystems' = c.systems
           /\ hoveredSystem' = c.hovered
           /\ selectedSystem' = c.selected
    /\ disposed' = TRUE
    /\ events' = <<>>
    /\ UNCHANGED <<generation, autoRotate, userHasInteracted, autoRotateSystemIndex,
                   autoRotateSystemTimer, currentAutoRotateSystem, clock, cameraAngle,
                   filters, animationId, frameCallbacks>>
    /\ UNCHANGED otherVars

\* dispose(), called between two frames
dispose ==
    /\ frameCallbacks' = IF animationId # 0
                         THEN cancelAnimationFrame(frameCallbacks, animationId)
                         ELSE frameCallbacks
    /\ LET c == clearStarSystems(starSystems)
       IN  /\ starSystems' = c.systems
           /\ hoveredSystem' = c.hovered
           /\ selectedSystem' = c.selected
    /\ disposed' = TRUE
    /\ events' = <<>>
    /\ UNCHANGED <<generation, autoRotate, userHasInteracted, autoRotateSystemIndex,
                   autoRotateSystemTimer, currentAutoRotateSystem, clock, cameraAngle,
                   filters, animationId>>
    /\ UNCHANGED otherVars

\* an animation frame of the tour whose hover callback calls dispose(): the
\* frame has requested the next one before, and goes on to render after
animateDisposing(delta) ==
    /\ clock + delta <= MaxClock
    /\ autoRotate /\ ~userHasInteracted
    /\ clock' = clock + delta
    /\ LET t == updateAutoRotateSystemDisplay(starSystems, autoRotateSystemIndex,
                     autoRotateSystemTimer, currentAutoRotateSystem, clock + delta)
           c == clearStarSystems(t.systems)
       IN  /\ t.events # <<>>
           /\ t.events[Len(t.events)].type = "onSystemHover"
           /\ \E handle \in frameCallbacks :
                 /\ animationId' = requestAnimationFrame(clock + delta)
                 /\ frameCallbacks' =
                        cancelAnimationFrame(
                            (frameCallbacks \ {handle})
                                \cup {requestAnimationFrame(clock + delta)},
                            requestAnimationFrame(clock + delta))
           /\ cameraAngle' = OrbitStep(cameraAngle)
           /\ starSystems' = c.systems
           /\ hoveredSystem' = c.hovered
           /\ selectedSystem' = c.selected
           /\ autoRotateSystemIndex' = t.index
           /\ autoRotateSystemTimer' = t.timer
           /\ currentAutoRotateSystem' = t.current
           /\ events' = <<OrbitEv>> \o t.events \o <<RenderEv>>
    /\ disposed' = TRUE
    /\ UNCHANGED <<generation, autoRotate, userHasInteracted, filters>>
    /\ UNCHANGED otherVars

----------------------------------------------------------------------------
\* UIController: filter toggles, and the filters-changed callback

\* The callback the application registers with setFiltersChangedCallback:
\* one visibility pass over all systems, then the statistics display
FiltersChangedCallback(systems, f) ==
    [systems |-> updateSystemVisibility(systems, f),
     events |-> <<Ev("updateSystemVisibility", NoSystem, TRUE, f),
                  Ev("updateStatistics", NoSystem, TRUE, f)>>]

\* onFilterChange storing the value without notifying
onFilterChange_NoCallback(filterKey, value) ==
    /\ filters' = [filters EXCEPT ![filterKey] = value]
    /\ events' = <<>>
    /\ UNCHANGED <<starSystems, generation, hoveredSystem, selectedSystem, autoRotate,
                   userHasInteracted, autoRotateSystemIndex, autoRotateSystemTimer,
                   currentAutoRotateSystem, clock, cameraAngle>>
    /\ UNCHANGED <<loopVars, otherVars>>

\* onFilterChange(filterKey, value)
onFilterChange(filterKey, value) ==
    LET f == [filters EXCEPT ![filterKey] = value]
        cb == FiltersChangedCallback(starSystems, f)
    IN  /\ filters' = f
        /\ starSystems' = cb.systems
        /\ events' = <<Ev("onFiltersChanged", NoSystem, TRUE, f)>> \o cb.events
        /\ UNCHANGED <<generation, hoveredSystem, selectedSystem, autoRotate,
                       userHasInteracted, autoRotateSystemIndex, autoRotateSystemTimer,
                       currentAutoRotateSystem, clock, cameraAngle>>
        /\ UNCHANGED <<loopVars, otherVars>>

\* a filter checkbox's 'change' listener: the box now shows the other value
OnCheckboxChange(filterKey) ==
    onFilterChange(filterKey, ~filters[filterKey])

\* toggleFilter(filterKey)
toggleFilter(filterKey) ==
    /\ filterKey \in DOMAIN filters
    /\ onFilterChange(filterKey, ~filters[filterKey])

\* handleKeyboardShortcuts: the keys 1 to 4
handleKeyboardShortcuts(k) ==
    toggleFilter(ShortcutKey(k))

\* setFilters(newFilters); newFilters may name only some of the toggles
setFilters(newFilters) ==
    LET f == [k \in FilterKeys |->
                 IF k \in DOMAIN newFilters THEN newFilters[k] ELSE filters[k]]
        cb == FiltersChangedCallback(starSystems, f)
    IN  /\ filters' = f
        /\ starSystems' = cb.systems
        /\ events' = <<Ev("onFiltersChanged", NoSystem, TRUE, f)>> \o cb.events
        /\ UNCHANGED <<generation, hoveredSystem, selectedSystem, autoRotate,
                       userHasInteracted, autoRotateSystemIndex, autoRotateSystemTimer,
                       currentAutoRotateSystem, clock, cameraAngle>>
        /\ UNCHANGED <<loopVars, otherVars>>

\* the objects handed to setFilters: any values for any of the toggles in keys
PartialFilters(keys) == UNION {[D -> BOOLEAN] : D \in SUBSET keys}

\* the toggles the user operates
Toggles(n) == {ShortcutKey(k) : k \in 1..n}

\* the kinds of system a catalog holds when only the first n toggles are operated
SystemKinds(n) ==
    IF n >= 3 THEN SystemData
    ELSE {d \in SystemData : d.primaryPortComplete = d.isClaimed}

KindCatalogs(n, kinds) == UNION {[1..k -> kinds] : k \in 0..n}

----------------------------------------------------------------------------
\* The scene, the camera and the user interface together

UserToggles == Toggles(IF MaxToggles < 4 THEN MaxToggles ELSE 4)

Next ==
    \/ OnControlsStart
    \/ OnMouseDown
    \/ \E ray \in Rays(starSystems) : OnMouseMove(ray)
    \/ \E systemsData \in KindCatalogs(MaxSystems, SystemKinds(MaxToggles)) :
          addStarSystems(systemsData)
    \/ \E delta \in FrameDeltas : animate(delta)
    \/ \E k \in UserToggles : OnCheckboxChange(k)
    \/ \E k \in 1..Cardinality(UserToggles) : handleKeyboardShortcuts(k)
    \/ \E k \in UserToggles : toggleFilter(k)
    \/ \E nf \in PartialFilters(UserToggles) : setFilters(nf)

Spec == Init /\ [][Next]_vars

\* The filter specification: the load of the catalog and the filter changes
\* before and after it, with all four toggles and every kind of system
NextFilter ==
    \/ \E systemsData \in CatalogsUpTo(MaxCatalog) :
          generation = 0 /\ addStarSystems(systemsData)
    \/ \E k \in FilterKeys : OnCheckboxChange(k)
    \/ \E k \in 1..4 : handleKeyboardShortcuts(k)
    \/ \E k \in FilterKeys : toggleFilter(k)
    \/ \E nf \in PartialFilters(FilterKeys) : setFilters(nf)

SpecFilter == Init /\ [][NextFilter]_vars

\* The orbit specification: the render loop of a 60 Hz or 30 Hz display and
\* the interaction listeners
NextOrbit ==
    \/ OnControlsStart
    \/ OnMouseDown
    \/ \E delta \in DisplayFrameDeltas :
          clock + delta <= MaxOrbitClock /\ animate(delta)

SpecOrbit == Init /\ [][NextOrbit]_vars

----------------------------------------------------------------------------
\* Text: a JavaScript string is the sequence of its characters

IsSpace(ch) == ch \in {" ", "\t", "\n", "\r"}

RECURSIVE trimStart(_)
trimStart(text) ==
    IF text # <<>> /\ IsSpace(Head(text)) THEN trimStart(Tail(text)) ELSE text

RECURSIVE trimEnd(_)
trimEnd(text) ==
    IF text # <<>> /\ IsSpace(text[Len(text)])
    THEN trimEnd(SubSeq(text, 1, Len(text) - 1))
    ELSE text

\* String.prototype.trim
trim(text) == trimEnd(trimStart(text))

----------------------------------------------------------------------------
\* main.js: the expedition route

\* JSON values: a number, a text, null, or a missing property
Num(n) == [type |-> "number", num |-> n, str |-> ""]
Str(t) == [type |-> "string", num |-> 0, str |-> t]
Null == [type |-> "null", num |-> 0, str |-> ""]
Undefined == [type |-> "undefined", num |-> 0, str |-> ""]

\* JavaScript numbers: an integer, an infinity (inf is its sign) or NaN
NaN == [isNaN |-> TRUE, inf |-> 0, val |-> 0]
Finite(n) == [isNaN |-> FALSE, inf |-> 0, val |-> n]
Infinite(sign) == [isNaN |-> FALSE, inf |-> sign, val |-> 0]

\* Number(v): a number is itself, the empty text and null are 0, a missing
\* property and any other text here are not numbers
Number(v) ==
    CASE v.type = "number" -> Finite(v.num)
      [] v.type = "string" -> IF v.str = "" THEN Finite(0) ELSE NaN
      [] v.type = "null" -> Finite(0)
      [] OTHER -> NaN

\* the result of parseCoordinates when it returns null
NoPosition == [isNull |-> TRUE, x |-> 0, y |-> 0, z |-> 0]

\* data.coords when the system has no coords object
NoCoords == [isObject |-> FALSE, x |-> Undefined, y |-> Undefined, z |-> Undefined]
Coords(x, y, z) == [isObject |-> TRUE, x |-> x, y |-> y, z |-> z]

\* parseCoordinates(data) of main.js
parseSystemCoordinates(data) ==
    IF data.coords.isObject
    THEN LET x == Number(data.coords.x)
             y == Number(data.coords.y)
             z == Number(data.coords.z)
         IN  IF ~x.isNaN /\ ~y.isNaN /\ ~z.isNaN
             THEN [isNull |-> FALSE, x |-> x.val, y |-> y.val, z |-> z.val]
             ELSE NoPosition
    ELSE NoPosition

\* combined_visualization_systems.json as loaded: two systems with
\* coordinates, one of them behind a permit, one system whose coordinates
\* are not numbers and one without coordinates
RouteCatalog ==
    <<[name |-> <<"A">>, coords |-> Coords(Num(1), Num(0), Num(0)), requirePermit |-> FALSE],
      [name |-> <<"B">>, coords |-> Coords(Num(2), Str(""), Null), requirePermit |-> TRUE],
      [name |-> <<"C">>, coords |-> Coords(Str("abc"), Num(0), Num(0)), requirePermit |-> FALSE],
      [name |-> <<"D">>, coords |-> NoCoords, requirePermit |-> FALSE]>>

\* combinedData.systems.find(s => s.name === systemName): the index of the
\* first system of that name, or 0
find(systems, systemName) ==
    IF \E i \in DOMAIN systems : systems[i].name = systemName
    THEN CHOOSE i \in DOMAIN systems :
            /\ systems[i].name = systemName
            /\ \A j \in 1..(i - 1) : systems[j].name # systemName
    ELSE 0

\* the waypoints of route.json: a system name and the two status columns
WaypointNames == {<<>>, <<" ">>, <<"A">>, <<"B">>, <<"C">>, <<"D">>, <<"X">>}
StatusTexts == {"TRUE", "FALSE"}

Waypoint(name, claimed, completed) ==
    [system_name |-> name, claimed |-> claimed, completed |-> completed]

\* waypoints of every kind of name, not claimed and not completed
Waypoints == {Waypoint(n, "FALSE", "FALSE") : n \in WaypointNames}

\* waypoints of every status, naming the systems that have coordinates
StatusWaypoints ==
    {Waypoint(n, c, d) : n \in {<<"A">>, <<"B">>}, c \in StatusTexts, d \in StatusTexts}

RouteLists == UNION {[1..k -> Waypoints] : k \in 0..MaxWaypoints}
StatusRouteLists == UNION {[1..k -> StatusWaypoints] : k \in 0..MaxWaypoints}

\* the first pass giving up at the first waypoint that does not resolve
RECURSIVE collectRoute_StopsAtUnresolved(_, _, _, _, _)
collectRoute_StopsAtUnresolved(systems, route, k, points, routeSystems) ==
    IF k > Len(route) THEN [points |-> points, routeSystems |-> routeSystems]
    ELSE LET waypoint == route[k]
             systemName == waypoint.system_name
             found == find(systems, systemName)
             position == IF found # 0 THEN parseSystemCoordinates(systems[found])
                         ELSE NoPosition
             entry == [systemName |-> systemName,
                       position |-> position,
                       claimed |-> waypoint.claimed = "TRUE",
                       completed |-> waypoint.completed = "TRUE",
                       requirePermit |-> IF found # 0 THEN systems[found].requirePermit
                                         ELSE FALSE]
             set == IF \E i \in DOMAIN routeSystems : routeSystems[i].systemName = systemName
                    THEN [i \in DOMAIN routeSystems |->
                             IF routeSystems[i].systemName = systemName
                             THEN entry ELSE routeSystems[i]]
                    ELSE Append(routeSystems, entry)
         IN  IF systemName # <<>> /\ trim(systemName) # <<>>
                /\ found # 0 /\ ~position.isNull
             THEN collectRoute_StopsAtUnresolved(systems, route, k + 1,
                                                Append(points, position), set)
             ELSE [points |-> points, routeSystems |-> routeSystems]

\* the first pass of createRouteVisualization from waypoint k on: the points
\* of the line, and the routeSystems map as its entries in insertion order
RECURSIVE collectRoute(_, _, _, _, _)
collectRoute(systems, route, k, points, routeSystems) ==
    IF k > Len(route) THEN [points |-> points, routeSystems |-> routeSystems]
    ELSE LET waypoint == route[k]
             systemName == waypoint.system_name
             found == find(systems, systemName)
             position == IF found # 0 THEN parseSystemCoordinates(systems[found])
                         ELSE NoPosition
             entry == [systemName |-> systemName,
                       position |-> position,
                       claimed |-> waypoint.claimed = "TRUE",
                       completed |-> waypoint.completed = "TRUE",
                       requirePermit |-> IF found # 0 THEN systems[found].requirePermit
                                         ELSE FALSE]
             \* Map.set: a key already present keeps its place and takes the value
             set == IF \E i \in DOMAIN routeSystems : routeSystems[i].systemName = systemName
                    THEN [i \in DOMAIN routeSystems |->
                             IF routeSystems[i].systemName = systemName
                             THEN entry ELSE routeSystems[i]]
                    ELSE Append(routeSystems, entry)
         IN  IF systemName = <<>> \/ trim(systemName) = <<>>
             THEN collectRoute(systems, route, k + 1, points, routeSystems)
             ELSE IF found # 0 /\ ~position.isNull
             THEN collectRoute(systems, route, k + 1, Append(points, position), set)
             ELSE collectRoute(systems, route, k + 1, points, routeSystems)

\* the marker color with the permit clause tried before the in-progress one
markerColor_PermitFirst(data) ==
    LET isInProgress == data.claimed /\ ~data.completed
    IN  IF data.completed THEN "green"
        ELSE IF data.requirePermit THEN "red"
        ELSE IF isInProgress THEN "orange"
        ELSE "yellow"

\* the color of the marker of a routeSystems entry
markerColor(data) ==
    LET isInProgress == data.claimed /\ ~data.completed
    IN  IF data.completed THEN "green"
        ELSE IF isInProgress THEN "orange"
        ELSE IF data.requirePermit THEN "red"
        ELSE "yellow"

\* the marker of a routeSystems entry, with its userData
marker(data) ==
    [systemName |-> data.systemName,
     position |-> data.position,
     color |-> markerColor(data),
     isInProgress |-> data.claimed /\ ~data.completed,
     claimed |-> data.claimed,
     completed |-> data.completed,
     requirePermit |-> data.requirePermit]

\* init() of main.js up to the assignment of combinedData
loadData ==
    /\ combinedData = NoData
    /\ combinedData' = RouteCatalog
    /\ UNCHANGED <<expeditionRoute, sceneRoutes, routeData, routeVisible, markerVisible>>
    /\ UNCHANGED <<sceneVars, parserVars, pageVars, events>>

\* createRouteVisualization on loaded data: the overlay it leaves in
\* expeditionRoute and among the children of the scene, with the visible
\* flags of the overlay and of its markers
routeOverlay(systems, current, children, visible, flags, route, show) ==
    LET removed == IF current # NoRoute THEN children \ {current} ELSE children
        c == collectRoute(systems, route, 1, <<>>, <<>>)
        built == [id |-> current.id + 1,
                  line |-> c.points,
                  markers |-> [i \in DOMAIN c.routeSystems |->
                                  marker(c.routeSystems[i])]]
    IN  IF Len(c.points) = 0
        THEN [expeditionRoute |-> current, sceneRoutes |-> removed,
              routeVisible |-> visible, markerVisible |-> flags]
        ELSE [expeditionRoute |-> built, sceneRoutes |-> removed \cup {built},
              routeVisible |-> show,
              markerVisible |-> [i \in DOMAIN built.markers |-> TRUE]]

\* createRouteVisualization(route)
createRouteVisualization(route) ==
    /\ routeData' = route
    /\ IF combinedData = NoData
       THEN UNCHANGED <<expeditionRoute, sceneRoutes, routeVisible, markerVisible>>
       ELSE LET r == routeOverlay(combinedData, expeditionRoute, sceneRoutes,
                                  routeVisible, markerVisible, route,
                                  showExpeditionRoute)
            IN  /\ r.expeditionRoute # expeditionRoute
                      => expeditionRoute.id < MaxRouteLoads
                /\ expeditionRoute' = r.expeditionRoute
                /\ sceneRoutes' = r.sceneRoutes
                /\ routeVisible' = r.routeVisible
                /\ markerVisible' = r.markerVisible
    /\ UNCHANGED combinedData
    /\ UNCHANGED <<sceneVars, parserVars, pageVars, events>>

\* The route specification: the data load of init(), and the route loads,
\* which init() makes after it has stored the data
NextRoute ==
    \/ loadData
    \/ \E route \in RouteLists :
          combinedData # NoData /\ createRouteVisualization(route)

SpecRoute == Init /\ [][NextRoute]_vars

\* The route status specification: the same, for the lists of waypoints of
\* every status
NextRouteStatus ==
    \/ loadData
    \/ \E route \in StatusRouteLists :
          combinedData # NoData /\ createRouteVisualization(route)

SpecRouteStatus == Init /\ [][NextRouteStatus]_vars

\* The teardown specification: the render loop, the listeners, the reloads and
\* dispose(), called between two frames or from the hover callback of a frame
NextDispose ==
    \/ OnControlsStart
    \/ OnMouseDown
    \/ \E systemsData \in KindCatalogs(MaxSystems, SystemKinds(MaxToggles)) :
          addStarSystems(systemsData)
    \/ \E delta \in FrameDeltas : animate(delta)
    \/ \E delta \in FrameDeltas : animateDisposing(delta)
    \/ dispose

SpecDispose == Init /\ [][NextDispose]_vars

----------------------------------------------------------------------------
\* sceneManager.js: the CSV parser

\* The values a property of a system object holds: a text, a boolean, a
\* number, or nothing (the header row has no such column)
JsText(t) == [type |-> "string", text |-> t, bool |-> FALSE, num |-> 0]
JsBoolean(b) == [type |-> "boolean", text |-> <<>>, bool |-> b, num |-> 0]
JsNumber(n) == [type |-> "number", text |-> <<>>, bool |-> FALSE, num |-> n]
JsUndefined == [type |-> "undefined", text |-> <<>>, bool |-> FALSE, num |-> 0]

UpperCase == <<"A", "B", "C", "D", "E", "F", "G", "H", "I", "J", "K", "L", "M",
               "N", "O", "P", "Q", "R", "S", "T", "U", "V", "W", "X", "Y", "Z">>
LowerCase == <<"a", "b", "c", "d", "e", "f", "g", "h", "i", "j", "k", "l", "m",
               "n", "o", "p", "q", "r", "s", "t", "u", "v", "w", "x", "y", "z">>

\* String.prototype.toLowerCase
toLowerCase(text) ==
    [k \in DOMAIN text |->
        IF \E u \in DOMAIN UpperCase : UpperCase[u] = text[k]
        THEN LowerCase[CHOOSE u \in DOMAIN UpperCase : UpperCase[u] = text[k]]
        ELSE text[k]]

Digits == <<"0", "1", "2", "3", "4", "5", "6", "7", "8", "9">>
IsDigit(ch) == \E d \in DOMAIN Digits : Digits[d] = ch
DigitValue(ch) == (CHOOSE d \in DOMAIN Digits : Digits[d] = ch) - 1

\* the longest prefix of decimal digits of a text, and its value
RECURSIVE digitPrefix(_)
digitPrefix(text) ==
    IF text # <<>> /\ IsDigit(Head(text))
    THEN <<Head(text)>> \o digitPrefix(Tail(text))
    ELSE <<>>

RECURSIVE digitsValue(_)
digitsValue(digits) ==
    IF digits = <<>> THEN 0
    ELSE 10 * digitsValue(SubSeq(digits, 1, Len(digits) - 1))
            + DigitValue(digits[Len(digits)])

IsSign(ch) == ch \in {"+", "-"}
unsigned(text) == IF text # <<>> /\ IsSign(Head(text)) THEN Tail(text) ELSE text
signOf(text) == IF text # <<>> /\ Head(text) = "-" THEN -1 ELSE 1

InfinityText == <<"I", "n", "f", "i", "n", "i", "t", "y">>
startsWith(text, prefix) ==
    Len(text) >= Len(prefix) /\ SubSeq(text, 1, Len(prefix)) = prefix

\* parseInt(text, 10): leading whitespace and one sign are skipped, the
\* decimal digits that follow are the value, and there is no value (NaN)
\* when no digit follows
parseInt(text) ==
    LET body == unsigned(trimStart(text))
        digits == digitPrefix(body)
    IN  IF digits = <<>> THEN NaN
        ELSE Finite(signOf(trimStart(text)) * digitsValue(digits))

\* parseFloat(text) of a text without fraction or exponent: as parseInt, and
\* the word Infinity is the infinite value
parseFloat(text) ==
    LET body == unsigned(trimStart(text))
        digits == digitPrefix(body)
    IN  IF startsWith(body, InfinityText) THEN Infinite(signOf(trimStart(text)))
        ELSE IF digits = <<>> THEN NaN
        ELSE Finite(signOf(trimStart(text)) * digitsValue(digits))

\* String.prototype.split(delimiter) for a one-character delimiter
RECURSIVE split(_, _)
split(text, delimiter) ==
    IF \E k \in DOMAIN text : text[k] = delimiter
    THEN LET k == CHOOSE j \in DOMAIN text :
                      text[j] = delimiter /\ \A h \in 1..(j - 1) : text[h] # delimiter
         IN  <<SubSeq(text, 1, k - 1)>> \o split(SubSeq(text, k + 1, Len(text)), delimiter)
    ELSE <<text>>

\* String.prototype.split(/\s+/): every run of whitespace is one delimiter
RECURSIVE splitSpaces(_)
splitSpaces(text) ==
    IF \E k \in DOMAIN text : IsSpace(text[k])
    THEN LET k == CHOOSE j \in DOMAIN text :
                      IsSpace(text[j]) /\ \A h \in 1..(j - 1) : ~IsSpace(text[h])
         IN  <<SubSeq(text, 1, k - 1)>>
                 \o splitSpaces(trimStart(SubSeq(text, k + 1, Len(text))))
    ELSE <<text>>

\* String.prototype.replace(/\s+/g, ' ')
RECURSIVE collapseSpaces(_)
collapseSpaces(text) ==
    IF text = <<>> THEN <<>>
    ELSE IF IsSpace(Head(text)) THEN <<" ">> \o collapseSpaces(trimStart(text))
    ELSE <<Head(text)>> \o collapseSpaces(Tail(text))

IsQuote(ch) == ch \in {"\"", "'"}

\* String.prototype.replace(/^["']|["']$/g, ''): a quote character at the
\* start and a quote character at the end are removed, each once
stripQuotes(text) ==
    LET from == IF text # <<>> /\ IsQuote(text[1]) THEN 2 ELSE 1
        to == IF Len(text) >= 2 /\ IsQuote(text[Len(text)])
              THEN Len(text) - 1 ELSE Len(text)
    IN  SubSeq(text, from, to)

\* parseCSVWithMultilineSupport keeps a record that has some non-empty
\* field and more than five fields
keepsRecord(record) ==
    (\E k \in DOMAIN record : record[k] # <<>>) /\ Len(record) > 5

\* parseCSVWithMultilineSupport before its loop: no record, no field, no
\* character read, outside quotes. skip is set when the loop body advances i
\* over the next character as well.
ScanStart ==
    [records |-> <<>>, currentRecord |-> <<>>, currentField |-> <<>>,
     inQuotes |-> FALSE, skip |-> FALSE]

\* one pass of the loop of parseCSVWithMultilineSupport, at character i
scanChar(scan, csvText, i) ==
    LET char == csvText[i]
        nextChar == IF i < Len(csvText) THEN csvText[i + 1] ELSE ""
    IN  IF scan.skip THEN [scan EXCEPT !.skip = FALSE]
        ELSE IF char = "\""
        THEN IF scan.inQuotes /\ nextChar = "\""
             THEN [scan EXCEPT !.currentField = Append(@, "\""), !.skip = TRUE]
             ELSE [scan EXCEPT !.inQuotes = ~@]
        ELSE IF char = "," /\ ~scan.inQuotes
        THEN [scan EXCEPT !.currentRecord = Append(@, trim(scan.currentField)),
                          !.currentField = <<>>]
        ELSE IF char \in {"\n", "\r"} /\ ~scan.inQuotes
        THEN LET ends == trim(scan.currentField) # <<>> \/ scan.currentRecord # <<>>
                 ended == Append(scan.currentRecord, trim(scan.currentField))
             IN  [scan EXCEPT
                    !.records = IF ends /\ keepsRecord(ended) THEN Append(@, ended) ELSE @,
                    !.currentRecord = IF ends THEN <<>> ELSE @,
                    !.currentField = IF ends THEN <<>> ELSE @,
                    !.skip = (char = "\r" /\ nextChar = "\n")]
        ELSE [scan EXCEPT !.currentField = Append(@, char)]

\* the loop over the characters from..to: the first half, then the second
\* (the test on the first half has it evaluated before the second is entered)
RECURSIVE scanCSV(_, _, _, _)
scanCSV(scan, csvText, from, to) ==
    IF from > to THEN scan
    ELSE IF from = to THEN scanChar(scan, csvText, from)
    ELSE LET middle == (from + to) \div 2
             half == scanCSV(scan, csvText, from, middle)
         IN  IF half.skip \in BOOLEAN
             THEN scanCSV(half, csvText, middle + 1, to)
             ELSE half

\* parseCSVWithMultilineSupport(csvText): the loop, then the last field and
\* record if any
parseCSVWithMultilineSupport(csvText) ==
    LET scan == scanCSV(ScanStart, csvText, 1, Len(csvText))
        last == Append(scan.currentRecord, trim(scan.currentField))
    IN  IF (trim(scan.currentField) # <<>> \/ scan.currentRecord # <<>>)
           /\ keepsRecord(last)
        THEN Append(scan.records, last)
        ELSE scan.records

\* The header cells of the catalog file. A header cell is carried through
\* the text as one symbol.
HeaderCells ==
    <<"System Name", "Cmdr Name", "Discord Name", "Is Claimed?",
      "Primary Port Complete?", "Coordinates", "Orbital Slots",
      "Planetary Slots", "Asteroid Base Slots", "Narrative", "Inara Link">>

\* normalizePropertyName(header) of the header cells of the catalog file;
\* any other text is the key of no property the parser reads
normalizePropertyName(header) ==
    CASE header = <<"System Name">> -> "systemName"
      [] header = <<"Cmdr Name">> -> "cmdrName"
      [] header = <<"Discord Name">> -> "discordName"
      [] header = <<"Is Claimed?">> -> "isClaimed"
      [] header = <<"Primary Port Complete?">> -> "primaryPortComplete"
      [] header = <<"Coordinates">> -> "coordinates"
      [] header = <<"Orbital Slots">> -> "orbitalSlots"
      [] header = <<"Planetary Slots">> -> "planetarySlots"
      [] header = <<"Asteroid Base Slots">> -> "asteroidBaseSlots"
      [] header = <<"Narrative">> -> "narrative"
      [] header = <<"Inara Link">> -> "inaraLink"
      [] OTHER -> "other"

\* system[property] after the headers.forEach of createSystemObject: the
\* value of the last column of that key, and nothing without such a column
property(headers, values, key) ==
    LET columns == {k \in DOMAIN headers : normalizePropertyName(headers[k]) = key}
    IN  IF columns = {} THEN JsUndefined
        ELSE JsText(values[CHOOSE k \in columns : \A j \in columns : j <= k])

\* !value of a property
falsy(value) ==
    CASE value.type = "string" -> value.text = <<>>
      [] value.type = "boolean" -> ~value.bool
      [] value.type = "number" -> value.num = 0
      [] OTHER -> TRUE

\* cleanText(text)
cleanText(value) ==
    IF falsy(value) \/ value.type # "string" THEN <<>>
    ELSE collapseSpaces(stripQuotes(trim(value.text)))

\* parseBoolean(value)
parseBoolean(value) ==
    IF value.type = "boolean" THEN value.bool
    ELSE IF value.type # "string" THEN FALSE
    ELSE trim(toLowerCase(value.text))
            \in {<<"y", "e", "s">>, <<"t", "r", "u", "e">>, <<"1">>}

\* the text parseInt makes of a value that is not a text
RECURSIVE decimalText(_)
decimalText(n) ==
    IF n < 0 THEN <<"-">> \o decimalText(-n)
    ELSE IF n < 10 THEN <<Digits[n + 1]>>
    ELSE decimalText(n \div 10) \o <<Digits[(n % 10) + 1]>>

toText(value) ==
    CASE value.type = "string" -> value.text
      [] value.type = "number" -> decimalText(value.num)
      [] value.type = "boolean" ->
            IF value.bool THEN <<"t", "r", "u", "e">> ELSE <<"f", "a", "l", "s", "e">>
      [] OTHER -> <<"u", "n", "d", "e", "f", "i", "n", "e", "d">>

\* parseNumber(value)
parseNumber(value) ==
    LET num == parseInt(toText(value))
    IN  IF num.isNaN THEN 0 ELSE num.val

\* the result of parseCoordinates when it returns null
NoCoordinates == [isNull |-> TRUE, x |-> NaN, y |-> NaN, z |-> NaN]

\* parseCoordinates(coordString) of the CSV parser
parseCoordinates(coordString) ==
    IF falsy(coordString) \/ coordString.type # "string" THEN NoCoordinates
    ELSE LET cleanCoords == trim(coordString.text)
             bySlash == split(cleanCoords, "/")
             byComma == IF Len(bySlash) # 3 THEN split(cleanCoords, ",") ELSE bySlash
             parts == IF Len(byComma) # 3 THEN splitSpaces(cleanCoords) ELSE byComma
         IN  IF Len(parts) # 3 THEN NoCoordinates
             ELSE LET x == parseFloat(trim(parts[1]))
                      y == parseFloat(trim(parts[2]))
                      z == parseFloat(trim(parts[3]))
                  IN  IF x.isNaN \/ y.isNaN \/ z.isNaN THEN NoCoordinates
                      ELSE [isNull |-> FALSE, x |-> x, y |-> y, z |-> z]

\* createSystemObject returns null: no system
NoSystemObject == <<>>

\* the system object once its fields are normalized
normalized(headers, values) ==
    [systemName |-> cleanText(property(headers, values, "systemName")),
     coordinates |-> parseCoordinates(property(headers, values, "coordinates")),
     isClaimed |-> parseBoolean(property(headers, values, "isClaimed")),
     primaryPortComplete |-> parseBoolean(property(headers, values, "primaryPortComplete")),
     isArchitect |-> parseBoolean(property(headers, values, "isArchitect")),
     orbitalSlots |-> parseNumber(property(headers, values, "orbitalSlots")),
     planetarySlots |-> parseNumber(property(headers, values, "planetarySlots")),
     asteroidBaseSlots |-> parseNumber(property(headers, values, "asteroidBaseSlots")),
     narrative |-> cleanText(property(headers, values, "narrative")),
     cmdrName |-> cleanText(property(headers, values, "cmdrName")),
     discordName |-> cleanText(property(headers, values, "discordName")),
     inaraLink |-> property(headers, values, "inaraLink")]

\* createSystemObject(values) that keeps a system without commander and claim
createSystemObject_KeepsUnclaimed(headers, values) ==
    LET systemName == property(headers, values, "systemName")
        system == normalized(headers, values)
    IN  IF falsy(systemName) \/ trim(systemName.text) = <<>> THEN NoSystemObject
        ELSE IF system.coordinates.isNull THEN NoSystemObject
        ELSE <<system>>

\* createSystemObject(values): the one system object, or none
createSystemObject(headers, values) ==
    LET systemName == property(headers, values, "systemName")
        system == normalized(headers, values)
    IN  IF falsy(systemName) \/ trim(systemName.text) = <<>> THEN NoSystemObject
        ELSE IF system.coordinates.isNull THEN NoSystemObject
        ELSE IF system.cmdrName = <<>> /\ ~system.isClaimed THEN NoSystemObject
        ELSE <<system>>

\* the loop of parseCSV over the records from record i on
RECURSIVE parseRecords(_, _)
parseRecords(records, i) ==
    IF i > Len(records) THEN <<>>
    ELSE (IF Len(records[i]) >= Len(records[1])
          THEN createSystemObject(records[1], records[i])
          ELSE <<>>)
         \o parseRecords(records, i + 1)

\* loadCSV(url) once the text has arrived: parseCSV(csvText) into this.data;
\* a text without records throws and leaves the parser as it was
parseCSV(csvText) ==
    LET records == parseCSVWithMultilineSupport(csvText)
    IN  /\ IF records = <<>>
           THEN UNCHANGED parserVars
           ELSE /\ csvRecords' = records
                /\ parserData' = parseRecords(records, 2)
        /\ UNCHANGED <<sceneVars, routeVars, pageVars, events>>

\* The texts of the model: a line is its cells joined by commas, a text is
\* the header line and the lines of the rows
RECURSIVE join(_, _)
join(cells, separator) ==
    IF cells = <<>> THEN <<>>
    ELSE IF Len(cells) = 1 THEN cells[1]
    ELSE cells[1] \o <<separator>> \o join(Tail(cells), separator)

HeaderLine == join([k \in DOMAIN HeaderCells |-> <<HeaderCells[k]>>], ",")

CsvText(rows) == join(<<HeaderLine>> \o rows, "\n")

\* a row of the catalog file: its eleven cells in the order of the header
Row(name, cmdr, claimed, coordinates, orbital, planetary, asteroid, narrative) ==
    join(<<name, cmdr, <<>>, claimed, <<"N", "o">>, coordinates,
           orbital, planetary, asteroid, narrative, <<>>>>, ",")

\* all texts of at most n characters of an alphabet
Texts(alphabet, n) == UNION {[1..k -> alphabet] : k \in 0..n}

\* Rows of every kind of name, commander and claim (the name is missing, a
\* letter, or a lone apostrophe), and a row whose coordinates are no numbers
RowNames == {<<>>, <<"A">>, <<"B">>, <<"'">>}
RowCommanders == {<<>>, <<"Z">>}
RowClaims == {<<"Y", "e", "s">>, <<"N", "o">>}

Rows ==
    {Row(n, c, b, <<"1", "/", "2", "/", "3">>, <<"1">>, <<"0">>, <<>>, <<>>) :
        n \in RowNames, c \in RowCommanders, b \in RowClaims}
    \cup {Row(<<"A">>, <<"Z">>, <<"Y", "e", "s">>, <<"a", "b", "c">>,
               <<"1">>, <<"0">>, <<>>, <<>>)}

CsvTexts == {CsvText(rows) : rows \in UNION {[1..k -> Rows] : k \in 0..MaxRows}}

\* The parser specification: the catalog text is loaded once
NextParser ==
    \E csvText \in CsvTexts : csvRecords = <<>> /\ parseCSV(csvText)

SpecParser == Init /\ [][NextParser]_vars

\* One row in which one cell takes every short text or every kind of
\* coordinates, the others making a system that is kept
SlotTexts == Texts({" ", "-", "0", "1", "a"}, MaxText)
FieldTexts == Texts({" ", "'", "\"", "a"}, MaxText)

CoordinateTexts ==
    {<<"1", "/", "2", "/", "3">>,
     <<"1", "0", " ", "/", " ", "-", "2", " ", "/", " ", "3">>,
     <<"\"", "1", ",", "2", ",", "3", "\"">>,
     <<"\"", "1", ",", " ", "2", ",", " ", "3", "\"">>,
     <<"1", " ", "2", " ", "3">>,
     <<"1", " ", " ", "2", " ", "3">>,
     <<"1", " ", "2", " ", "3", "/", "/">>,
     <<"1", "/", "2">>,
     <<"1", "/", "2", "/", "3", "/", "4">>,
     <<"1", "/", "2", "/">>,
     <<"a", "/", "b", "/", "c">>,
     <<"1", "/", "a", "/", "3">>,
     <<"1", "a", "/", "2", "/", "3">>,
     <<"1", ",", "2", ",", "3">>,
     <<>>,
     InfinityText \o <<"/", "1", "/", "2">>,
     <<"1", "/", "2", "/", "-">> \o InfinityText,
     <<"1", " ", "2", " ">> \o InfinityText}

NormalizeRows ==
    {Row(<<"A">>, <<"Z">>, <<"N", "o">>, <<"1", "/", "2", "/", "3">>, t, <<"1">>, <<>>, <<>>) :
        t \in SlotTexts}
    \cup {Row(<<"A">>, <<"Z">>, <<"N", "o">>, <<"1", "/", "2", "/", "3">>, <<"1">>, t, <<>>, <<>>) :
        t \in SlotTexts}
    \cup {Row(<<"A">>, <<"Z">>, <<"N", "o">>, <<"1", "/", "2", "/", "3">>, <<"1">>, <<"1">>, t, <<>>) :
        t \in SlotTexts}
    \cup {Row(<<"A">>, <<"Z">>, t, <<"1", "/", "2", "/", "3">>, <<"1">>, <<"1">>, <<"1">>, <<>>) :
        t \in {<<>>, <<"Y", "e", "s">>, <<"y", "e", "s">>, <<"T", "R", "U", "E">>,
               <<"1">>, <<"N", "o">>, <<"0">>, <<"y">>}}
    \cup {Row(<<"A">>, <<"Z">>, <<"N", "o">>, <<"1", "/", "2", "/", "3">>, <<"1">>, <<"1">>, <<"1">>, t) :
        t \in FieldTexts}
    \cup {Row(t, <<"Z">>, <<"N", "o">>, <<"1", "/", "2", "/", "3">>, <<"1">>, <<"1">>, <<"1">>, <<>>) :
        t \in FieldTexts}
    \cup {Row(<<"A">>, t, <<"Y", "e", "s">>, <<"1", "/", "2", "/", "3">>, <<"1">>, <<"1">>, <<"1">>, <<>>) :
        t \in FieldTexts}
    \cup {Row(<<"A">>, <<"Z">>, <<"N", "o">>, t, <<"1">>, <<"1">>, <<"1">>, <<>>) :
        t \in CoordinateTexts}

\* The normalization specification: a catalog text of one row is loaded once
NextNormalize ==
    \E row \in NormalizeRows : csvRecords = <<>> /\ parseCSV(CsvText(<<row>>))

SpecNormalize == Init /\ [][NextNormalize]_vars

----------------------------------------------------------------------------
\* main.js: the initial load

\* the promise init() holds for a request: loadExpeditionData and
\* loadExpeditionRoute catch the failure of their fetch and return an empty
\* result
promiseState(source, state) ==
    IF source \in {"expedition", "route"} /\ state = "rejected"
    THEN "fulfilled"
    ELSE state

\* a combination fulfilled as soon as one of its promises is
PromiseAll_FirstFulfilled(promises) ==
    IF \E p \in DOMAIN promises : promises[p] = "fulfilled" THEN "fulfilled"
    ELSE IF \A p \in DOMAIN promises : promises[p] = "rejected" THEN "rejected"
    ELSE "pending"

\* Promise.all(promises): rejected as soon as one promise is, fulfilled when
\* all are
PromiseAll(promises) ==
    IF \E p \in DOMAIN promises : promises[p] = "rejected" THEN "rejected"
    ELSE IF \A p \in DOMAIN promises : promises[p] = "fulfilled" THEN "fulfilled"
    ELSE "pending"

\* the promises init() hands to Promise.all
dataPromises(states) ==
    [source \in DataSources |-> promiseState(source, states[source])]

\* the information object of a system of combined_visualization_systems.json
NoInformation == [isObject |-> FALSE, population |-> Undefined]
Information(population) == [isObject |-> TRUE, population |-> population]

\* a system of combined_visualization_systems.json; completed is the
\* property init() adds to the systems that have a position
System(name, coords, requirePermit, information) ==
    [name |-> name, coords |-> coords, requirePermit |-> requirePermit,
     information |-> information, completed |-> FALSE]

\* parseSystemInfo(information).population
parseSystemInfo(information) ==
    IF ~information.isObject THEN 0
    ELSE IF information.population.type = "number"
    THEN information.population.num
    ELSE 0

\* SPECIAL_SYSTEMS[name]: the entry stored last under the name
NoSpecial == [isUndefined |-> TRUE, color |-> ""]

special(table, name) ==
    IF \E i \in DOMAIN table : table[i].name = name
    THEN LET i == CHOOSE i \in DOMAIN table :
                     /\ table[i].name = name
                     /\ \A j \in (i + 1)..Len(table) : table[j].name # name
         IN  [isUndefined |-> FALSE, color |-> table[i].color]
    ELSE NoSpecial

\* getStarColor(data)
getStarColor(table, data) ==
    LET population == IF data.information.isObject
                      THEN parseSystemInfo(data.information) ELSE 0
    IN  IF data.completed THEN "0x00ff00"
        ELSE IF data.name # <<>> /\ ~special(table, data.name).isUndefined
        THEN special(table, data.name).color
        ELSE IF population > 0 THEN "0x800080"
        ELSE "0xFFFFFF"

\* the star mesh createStarSystem(data, position) adds to the scene, with
\* its userData
createStarSystem(table, data, position) ==
    [name |-> data.name,
     position |-> position,
     color |-> getStarColor(table, data),
     systemInfo |-> parseSystemInfo(data.information),
     requirePermit |-> data.requirePermit,
     completed |-> data.completed,
     visible |-> TRUE]

\* Map.set(key, value) on a Map held as its entries in insertion order
mapSet(map, key, value) ==
    IF \E i \in DOMAIN map : map[i].key = key
    THEN [i \in DOMAIN map |->
             IF map[i].key = key THEN [key |-> key, value |-> value] ELSE map[i]]
    ELSE Append(map, [key |-> key, value |-> value])

\* Map.get(key): the index of the entry, or 0
mapGet(map, key) ==
    IF \E i \in DOMAIN map : map[i].key = key
    THEN CHOOSE i \in DOMAIN map : map[i].key = key
    ELSE 0

\* a row of vis_anchor_systems.csv as init() parses it
Anchor(name, description) == [name |-> name, description |-> description]

\* the anchorSystems map of init(): the anchors that have a description
RECURSIVE anchorSystemsOf(_, _, _)
anchorSystemsOf(anchorData, k, map) ==
    IF k > Len(anchorData) THEN map
    ELSE anchorSystemsOf(anchorData, k + 1,
            IF anchorData[k].description # <<>>
            THEN mapSet(map, anchorData[k].name, anchorData[k])
            ELSE map)

\* the completedSystems map of init(): its keys
completedSystemsOf(route) ==
    {route[k].system_name : k \in {i \in DOMAIN route :
        route[i].system_name # <<>> /\ route[i].completed = "TRUE"}}

\* the sprite createRegionLabel(position, text) adds to the scene; anchor is
\* the row of the anchor table it was made for
RegionLabel(position, anchor) ==
    [text |-> anchor.description, position |-> position, anchor |-> anchor.name]

\* allSystems.find(s => s.name.trim() === systemName)
findTrimmed(systems, systemName) ==
    IF \E i \in DOMAIN systems : trim(systems[i].name) = systemName
    THEN CHOOSE i \in DOMAIN systems :
            /\ trim(systems[i].name) = systemName
            /\ \A j \in 1..(i - 1) : trim(systems[j].name) # systemName
    ELSE 0

\* the first pass of init() over the anchor table from row k on: the labels
\* in the scene and the regionLabels map
RECURSIVE createRegionLabels(_, _, _, _, _)
createRegionLabels(anchorData, allSystems, k, labels, map) ==
    IF k > Len(anchorData) THEN [labels |-> labels, regionLabels |-> map]
    ELSE LET anchor == anchorData[k]
             systemName == trim(anchor.name)
             found == findTrimmed(allSystems, systemName)
             position == IF found # 0 THEN parseSystemCoordinates(allSystems[found])
                         ELSE NoPosition
         IN  IF anchor.description # <<>> /\ found # 0 /\ ~position.isNull
             THEN createRegionLabels(anchorData, allSystems, k + 1,
                      Append(labels, RegionLabel(position, anchor)),
                      mapSet(map, systemName, Len(labels) + 1))
             ELSE createRegionLabels(anchorData, allSystems, k + 1, labels, map)

\* text.replace(/\s+/g, '')
removeSpaces(text) == SelectSeq(text, LAMBDA ch : ~IsSpace(ch))

\* the anchor init() takes for a system: the one of its name, or else the
\* first whose name matches without regard to case or to spaces; 0 if none
anchorOf(anchorSystems, name) ==
    IF mapGet(anchorSystems, name) # 0 THEN mapGet(anchorSystems, name)
    ELSE LET matches == {i \in DOMAIN anchorSystems :
                            \/ toLowerCase(anchorSystems[i].key) = toLowerCase(name)
                            \/ removeSpaces(anchorSystems[i].key) = removeSpaces(name)}
         IN  IF matches = {} THEN 0
             ELSE CHOOSE i \in matches : \A j \in matches : i <= j

\* the test of init() that makes a system a particle
isParticle_IgnoresSpecial(isPopulated, isSpecial) == ~isPopulated

isParticle(isPopulated, isSpecial) == ~isPopulated /\ ~isSpecial

\* the scene init() has built so far
Built(systems, meshes, positions, data, labels, map) ==
    [systems |-> systems, stars |-> meshes, particlePositions |-> positions,
     particleData |-> data, sceneLabels |-> labels, regionLabels |-> map]

\* the pass of init() over the systems from system k on: a system with a
\* position becomes a particle or a star, and gets a region label if an
\* anchor matches it
RECURSIVE processSystems(_, _, _, _, _, _)
processSystems(allSystems, k, table, completedSystems, anchorSystems, b) ==
    IF k > Len(allSystems) THEN b
    ELSE LET position == parseSystemCoordinates(allSystems[k])
             system == [allSystems[k] EXCEPT
                           !.completed = allSystems[k].name \in completedSystems]
             isPopulated == parseSystemInfo(system.information) > 0
             isSpecial == ~special(table, system.name).isUndefined
             a == anchorOf(anchorSystems, system.name)
             labelled == a # 0 /\ anchorSystems[a].value.description # <<>>
         IN  IF position.isNull
             THEN processSystems(allSystems, k + 1, table, completedSystems,
                                 anchorSystems,
                                 [b EXCEPT !.systems = Append(b.systems, allSystems[k])])
             ELSE processSystems(allSystems, k + 1, table, completedSystems,
                                 anchorSystems,
                     Built(Append(b.systems, system),
                           IF isParticle(isPopulated, isSpecial) THEN b.stars
                           ELSE Append(b.stars, createStarSystem(table, system, position)),
                           IF isParticle(isPopulated, isSpecial)
                           THEN b.particlePositions \o <<position.x, position.y, position.z>>
                           ELSE b.particlePositions,
                           IF isParticle(isPopulated, isSpecial)
                           THEN Append(b.particleData, system)
                           ELSE b.particleData,
                           IF labelled
                           THEN Append(b.sceneLabels,
                                       RegionLabel(position, anchorSystems[a].value))
                           ELSE b.sceneLabels,
                           IF labelled
                           THEN mapSet(b.regionLabels, system.name, Len(b.sceneLabels) + 1)
                           ELSE b.regionLabels))

\* initParticleSystem(): the point cloud, with its position attribute if
\* there are particles
initParticleSystem(positions, show) ==
    [created |-> TRUE, visible |-> show, position |-> positions,
     particleData |-> <<>>]

\* updateParticleVisibility(): the point cloud follows the toggle, and so
\* does every mesh the traversal of the scene meets, by the requirePermit
\* of its userData: the stars, and the markers of a route overlay in the scene
updateParticleVisibility(cloud, meshes, route, inScene, flags, show) ==
    [particleSystem |-> IF cloud.created THEN [cloud EXCEPT !.visible = show]
                        ELSE cloud,
     stars |-> [i \in DOMAIN meshes |->
                   [meshes[i] EXCEPT !.visible = ~meshes[i].requirePermit \/ show]],
     markerVisible |-> IF route \in inScene
                       THEN [i \in DOMAIN route.markers |->
                                ~route.markers[i].requirePermit \/ show]
                       ELSE flags]

\* what a request delivers: the parsed body, or a failure
Response(ok, body) == [ok |-> ok, body |-> body]
Failure == Response(FALSE, <<>>)

\* the systems of a catalog: with or without population; B requires a
\* permit, A may lack coordinates
LoadNames == {<<"A">>, <<"B">>}

LoadSystems ==
    {System(name, coords, name = <<"B">>, information) :
        name \in LoadNames,
        coords \in {Coords(Num(1), Num(0), Num(0)), NoCoords},
        information \in {NoInformation, Information(Num(1))}}
    \ {System(<<"B">>, NoCoords, TRUE, information) :
          information \in {NoInformation, Information(Num(1))}}

LoadCatalogs == UNION {[1..k -> LoadSystems] : k \in 0..MaxLoaded}

\* route lists of a completed waypoint A and an open waypoint B
LoadWaypoints == {Waypoint(<<"A">>, "TRUE", "TRUE"), Waypoint(<<"B">>, "FALSE", "FALSE")}
LoadRouteLists == UNION {[1..k -> LoadWaypoints] : k \in 0..MaxStops}

\* anchor tables: rows with and without a description, Z is no system of
\* the catalog
Anchors ==
    {Anchor(<<"A">>, <<"d">>), Anchor(<<"A">>, <<>>), Anchor(<<"Z">>, <<"e">>)}
AnchorTables == UNION {[1..k -> Anchors] : k \in 0..MaxAnchors}

\* special_systems.csv: A is a special system
SpecialTables == {<<[name |-> <<"A">>, color |-> "0xFFD700"]>>}

Responses(source) ==
    CASE source = "systems" -> {Response(TRUE, c) : c \in LoadCatalogs} \cup {Failure}
      [] source = "route" -> {Response(TRUE, r) : r \in LoadRouteLists} \cup {Failure}
      [] source = "anchors" -> {Response(TRUE, t) : t \in AnchorTables} \cup {Failure}
      [] source = "special" -> {Response(TRUE, t) : t \in SpecialTables} \cup {Failure}
      [] OTHER -> {Response(TRUE, <<>>), Failure}

sceneGraphVars == <<stars, particlePositions, particleData, particleSystem,
                    sceneLabels, regionLabels, infoPanel>>
toggleVars == <<showUnclaimedSystems, showExpeditionRoute>>

\* a request of init() settles: the fetch of the catalog throws on a
\* response that is not ok, loadSpecialSystems fills SPECIAL_SYSTEMS from the
\* table it got
fetchSettled(source, response) ==
    /\ fetchState[source] = "pending"
    /\ fetchState' = [fetchState EXCEPT
                         ![source] = IF response.ok THEN "fulfilled" ELSE "rejected"]
    /\ fetched' = [fetched EXCEPT ![source] = response.body]
    /\ SPECIAL_SYSTEMS' = IF source = "special" /\ response.ok
                          THEN response.body ELSE SPECIAL_SYSTEMS
    /\ UNCHANGED <<initAt, loadingScreen, sceneGraphVars, toggleVars>>
    /\ UNCHANGED <<sceneVars, routeVars, parserVars, events>>

\* init() after the font: loaded or not, it goes on to loadSpecialSystems()
initLoadSpecialSystems ==
    /\ initAt = "font"
    /\ fetchState["font"] \in {"fulfilled", "rejected"}
    /\ initAt' = "special"
    /\ fetchState' = [fetchState EXCEPT !["special"] = "pending"]
    /\ UNCHANGED <<fetched, loadingScreen, SPECIAL_SYSTEMS, sceneGraphVars, toggleVars>>
    /\ UNCHANGED <<sceneVars, routeVars, parserVars, events>>

\* init() after loadSpecialSystems(), which catches its failure: the four
\* loads of Promise.all start
initLoadData ==
    /\ initAt = "special"
    /\ fetchState["special"] \in {"fulfilled", "rejected"}
    /\ initAt' = "data"
    /\ fetchState' = [source \in Sources |->
                         IF source \in DataSources THEN "pending"
                         ELSE fetchState[source]]
    /\ UNCHANGED <<fetched, loadingScreen, SPECIAL_SYSTEMS, sceneGraphVars, toggleVars>>
    /\ UNCHANGED <<sceneVars, routeVars, parserVars, events>>

\* init() after Promise.all is fulfilled: the scene is built from the data
\* and the loading screen is hidden
initBuildScene ==
    /\ initAt = "data"
    /\ PromiseAll(dataPromises(fetchState)) = "fulfilled"
    /\ LET data == fetched["systems"]
           route == fetched["route"]
           anchorData == fetched["anchors"]
           anchorSystems == anchorSystemsOf(anchorData, 1, <<>>)
           completedSystems == completedSystemsOf(route)
           first == createRegionLabels(anchorData, data, 1, sceneLabels, regionLabels)
           b == processSystems(data, 1, SPECIAL_SYSTEMS, completedSystems, anchorSystems,
                               Built(<<>>, stars, <<>>, <<>>,
                                     first.labels, first.regionLabels))
           cloud == initParticleSystem(b.particlePositions, showUnclaimedSystems)
           v == updateParticleVisibility(cloud, b.stars, expeditionRoute, sceneRoutes,
                                         markerVisible, showUnclaimedSystems)
           r == routeOverlay(b.systems, expeditionRoute, sceneRoutes, routeVisible,
                             v.markerVisible, route, showExpeditionRoute)
       IN  /\ combinedData' = b.systems
           /\ stars' = v.stars
           /\ particlePositions' = b.particlePositions
           /\ particleData' = b.particleData
           /\ particleSystem' = v.particleSystem
           /\ sceneLabels' = b.sceneLabels
           /\ regionLabels' = b.regionLabels
           /\ routeData' = route
           /\ expeditionRoute' = r.expeditionRoute
           /\ sceneRoutes' = r.sceneRoutes
           /\ routeVisible' = r.routeVisible
           /\ markerVisible' = r.markerVisible
    /\ loadingScreen' = "hidden"
    /\ initAt' = "done"
    /\ UNCHANGED <<fetchState, fetched, SPECIAL_SYSTEMS, infoPanel, toggleVars>>
    /\ UNCHANGED <<sceneVars, parserVars, events>>

\* the catch of init(): Promise.all is rejected, the loading screen shows
\* the error text and init() returns
initCatch ==
    /\ initAt = "data"
    /\ PromiseAll(dataPromises(fetchState)) = "rejected"
    /\ loadingScreen' = "error"
    /\ initAt' = "failed"
    /\ UNCHANGED <<fetchState, fetched, SPECIAL_SYSTEMS, sceneGraphVars, toggleVars>>
    /\ UNCHANGED <<sceneVars, routeVars, parserVars, events>>

\* the 'change' listener of the show-unclaimed checkbox
OnUnclaimedToggleChange ==
    LET checked == ~showUnclaimedSystems
        v == updateParticleVisibility(particleSystem, stars, expeditionRoute,
                                      sceneRoutes, markerVisible, checked)
    IN  /\ showUnclaimedSystems' = checked
        /\ particleSystem' = v.particleSystem
        /\ stars' = v.stars
        /\ markerVisible' = v.markerVisible
        /\ UNCHANGED <<initAt, fetchState, fetched, loadingScreen, SPECIAL_SYSTEMS,
                       particlePositions, particleData, sceneLabels, regionLabels,
                       showExpeditionRoute, infoPanel>>
        /\ UNCHANGED <<combinedData, expeditionRoute, sceneRoutes, routeData,
                       routeVisible>>
        /\ UNCHANGED <<sceneVars, parserVars, events>>

\* updateRouteVisibility()
updateRouteVisibility(route, visible, show) ==
    IF route # NoRoute THEN show ELSE visible

\* the 'change' listener of the show-route checkbox
OnRouteToggleChange ==
    /\ showExpeditionRoute' = ~showExpeditionRoute
    /\ routeVisible' = updateRouteVisibility(expeditionRoute, routeVisible,
                                             ~showExpeditionRoute)
    /\ UNCHANGED <<initAt, fetchState, fetched, loadingScreen, SPECIAL_SYSTEMS,
                   sceneGraphVars, showUnclaimedSystems>>
    /\ UNCHANGED <<combinedData, expeditionRoute, sceneRoutes, routeData, markerVisible>>
    /\ UNCHANGED <<sceneVars, parserVars, events>>

\* The load specification: the requests of init() settle in any order, with
\* any outcome, and the user operates the two toggles
NextLoad ==
    \/ \E source \in Sources : \E response \in Responses(source) :
          fetchSettled(source, response)
    \/ initLoadSpecialSystems
    \/ initLoadData
    \/ initBuildScene
    \/ initCatch
    \/ OnUnclaimedToggleChange
    \/ OnRouteToggleChange

SpecLoad == Init /\ [][NextLoad]_vars

----------------------------------------------------------------------------
\* main.js, the version that loads combined_visualization_systems.csv

\* the SPECIAL_SYSTEMS literal of that version; M stands for the memorial
\* system
SpecialSystemsLiteral == <<[name |-> <<"M">>, color |-> "0xFFD700"]>>

\* a row of the catalog as d3.csv delivers it; position and population stand
\* for the coords and information texts as parseCoordinates and
\* parseSystemInfo read them
CsvSystem(name, position, population, requirePermit, anchor, description) ==
    [name |-> name, position |-> position, population |-> population,
     requirePermit |-> requirePermit, anchor_system |-> anchor,
     anchor_description |-> description]

Position(x, y, z) == [isNull |-> FALSE, x |-> x, y |-> y, z |-> z]

\* the systemData createStarSystem stores with a star or a particle;
\* position is not a property of it: it tells which row the entry was made of
SystemDataCsv(data) ==
    [name |-> data.name,
     special |-> ~special(SpecialSystemsLiteral, data.name).isUndefined,
     population |-> data.population,
     position |-> data.position]

\* getStarColor(systemData) of that version
getStarColorCsv(data) ==
    IF ~special(SpecialSystemsLiteral, data.name).isUndefined
    THEN special(SpecialSystemsLiteral, data.name).color
    ELSE IF data.population > 0 THEN "0x800080"
    ELSE "0xFFFFFF"

\* the callback of d3.csv from system k of the unlocked systems on:
\* createStarSystem makes a particle or a star of a system with a position,
\* and the first system of an anchor with a description gets the region label
RECURSIVE createSystemsCsv(_, _, _, _)
createSystemsCsv(unlockedSystems, k, processedAnchors, b) ==
    IF k > Len(unlockedSystems) THEN b
    ELSE LET system == unlockedSystems[k]
             position == system.position
             isPopulated == system.population > 0
             isSpecial == ~special(SpecialSystemsLiteral, system.name).isUndefined
             labelled == /\ system.anchor_description # <<>>
                         /\ trim(system.anchor_description) # <<>>
                         /\ system.anchor_system \notin processedAnchors
         IN  IF position.isNull
             THEN createSystemsCsv(unlockedSystems, k + 1, processedAnchors, b)
             ELSE createSystemsCsv(unlockedSystems, k + 1,
                     IF labelled THEN processedAnchors \cup {system.anchor_system}
                     ELSE processedAnchors,
                     Built(b.systems,
                           IF ~isPopulated /\ ~isSpecial THEN b.stars
                           ELSE Append(b.stars,
                                       [name |-> system.name,
                                        position |-> position,
                                        color |-> getStarColorCsv(system),
                                        systemInfo |-> system.population,
                                        requirePermit |-> FALSE,
                                        completed |-> FALSE,
                                        visible |-> TRUE]),
                           IF ~isPopulated /\ ~isSpecial
                           THEN b.particlePositions \o <<position.x, position.y, position.z>>
                           ELSE b.particlePositions,
                           IF ~isPopulated /\ ~isSpecial
                           THEN Append(b.particleData, SystemDataCsv(system))
                           ELSE b.particleData,
                           IF labelled
                           THEN Append(b.sceneLabels,
                                       [text |-> system.anchor_description,
                                        position |-> position,
                                        anchor |-> system.anchor_system])
                           ELSE b.sceneLabels,
                           IF labelled
                           THEN mapSet(b.regionLabels, system.anchor_system,
                                       Len(b.sceneLabels) + 1)
                           ELSE b.regionLabels))

\* updateParticleSystem()
updateParticleSystem(cloud, positions, data) ==
    IF Len(positions) = 0 THEN cloud
    ELSE [cloud EXCEPT !.position = positions, !.particleData = data]

\* the callback of d3.csv(...).then
onCsvLoaded(data) ==
    /\ ~particleSystem.created
    /\ LET created == [created |-> TRUE, visible |-> showUnclaimedSystems,
                       position |-> <<>>, particleData |-> <<>>]
           unlockedSystems == SelectSeq(data, LAMBDA system :
                                                 system.requirePermit = "False")
           b == createSystemsCsv(unlockedSystems, 1, {},
                    Built(<<>>, stars, particlePositions, particleData,
                          sceneLabels, regionLabels))
           cloud == updateParticleSystem(created, b.particlePositions, b.particleData)
       IN  /\ stars' = b.stars
           /\ particlePositions' = b.particlePositions
           /\ particleData' = b.particleData
           /\ sceneLabels' = b.sceneLabels
           /\ regionLabels' = b.regionLabels
           /\ particleSystem' = [cloud EXCEPT !.visible = showUnclaimedSystems]
    /\ UNCHANGED <<initAt, fetchState, fetched, loadingScreen, SPECIAL_SYSTEMS,
                   infoPanel, toggleVars>>
    /\ UNCHANGED <<sceneVars, routeVars, parserVars, events>>

\* Math.floor(index / 3)
particleIndexOf(index) == index \div 3

\* what a ray meets: the star met first (0 if none) and the point of the
\* cloud met first (0 if none, k for the point of index k - 1)
Hits == [star : 0..MaxCsvRows, point : 0..MaxCsvRows]

\* onMouseMove(event) of that version: the info panel shows the record of
\* the star the ray meets, or else of the particle it meets, or nothing
onMouseMoveCsv(hit) ==
    /\ hit.star <= Len(stars)
    /\ hit.point <= Len(particleSystem.position) \div 3
    /\ infoPanel' =
          IF hit.star # 0
          THEN [isNull |-> FALSE, name |-> stars[hit.star].name]
          ELSE IF hit.point # 0
          THEN LET particleIndex == particleIndexOf(hit.point - 1)
               IN  IF particleIndex + 1 \in DOMAIN particleSystem.particleData
                   THEN [isNull |-> FALSE,
                         name |-> particleSystem.particleData[particleIndex + 1].name]
                   ELSE NoInfo
          ELSE NoInfo
    /\ UNCHANGED <<initAt, fetchState, fetched, loadingScreen, SPECIAL_SYSTEMS, stars,
                   particlePositions, particleData, particleSystem, sceneLabels,
                   regionLabels, toggleVars>>
    /\ UNCHANGED <<sceneVars, routeVars, parserVars, events>>

\* the 'change' listener of the show-unclaimed checkbox of that version:
\* updateParticleVisibility() sets the visible flag of the cloud
OnUnclaimedToggleChangeCsv ==
    /\ showUnclaimedSystems' = ~showUnclaimedSystems
    /\ particleSystem' = IF particleSystem.created
                         THEN [particleSystem EXCEPT !.visible = ~showUnclaimedSystems]
                         ELSE particleSystem
    /\ UNCHANGED <<initAt, fetchState, fetched, loadingScreen, SPECIAL_SYSTEMS, stars,
                   particlePositions, particleData, sceneLabels, regionLabels,
                   showExpeditionRoute, infoPanel>>
    /\ UNCHANGED <<sceneVars, routeVars, parserVars, events>>

\* the rows of the catalog: plain systems A and B of the region R, a
\* populated system, the memorial system, a system without coordinates and
\* a system behind a permit
CsvSystems ==
    {CsvSystem(<<"A">>, Position(1, 0, 0), 0, "False", <<"R">>, <<"d">>),
     CsvSystem(<<"B">>, Position(2, 0, 0), 0, "False", <<"R">>, <<"d">>),
     CsvSystem(<<"C">>, Position(3, 0, 0), 1, "False", <<>>, <<>>),
     CsvSystem(<<"M">>, Position(4, 0, 0), 0, "False", <<"M">>, <<" ">>),
     CsvSystem(<<"D">>, NoPosition, 0, "False", <<>>, <<>>),
     CsvSystem(<<"E">>, Position(5, 0, 0), 0, "True", <<>>, <<>>)}

CsvCatalogs == UNION {[1..k -> CsvSystems] : k \in 0..MaxCsvRows}

\* The specification of that version: the catalog is loaded, the pointer
\* moves and the user operates the toggle
NextCsv ==
    \/ \E data \in CsvCatalogs : onCsvLoaded(data)
    \/ \E hit \in Hits : onMouseMoveCsv(hit)
    \/ OnUnclaimedToggleChangeCsv

SpecCsv == Init /\ [][NextCsv]_vars

----------------------------------------------------------------------------
\* The colour rules: StarSystem.determineColor and getStarColor of main.js

\* catalog records that carry, besides the claim and the port flag, a
\* completed-route and a special-category flag
ColorData ==
    [isClaimed : BOOLEAN, primaryPortComplete : BOOLEAN,
     completed : BOOLEAN, special : BOOLEAN]

ColorCatalogs == UNION {[1..k -> ColorData] : k \in 0..MaxColored}

\* the systems handed to createStarSystem: on the route as completed or
\* not, with no information, no population or some population
ColorSystems ==
    {[System(name, Coords(Num(1), Num(0), Num(0)), FALSE, information)
         EXCEPT !.completed = completed] :
        name \in LoadNames,
        information \in {NoInformation, Information(Num(0)), Information(Num(1))},
        completed \in BOOLEAN}

\* createStarSystem(data, position), once the special-systems table has
\* settled
CreateStarSystem(data) ==
    /\ fetchState["special"] \in {"fulfilled", "rejected"}
    /\ Len(stars) < MaxColored
    /\ stars' = Append(stars, createStarSystem(SPECIAL_SYSTEMS, data,
                                               parseSystemCoordinates(data)))
    /\ UNCHANGED <<initAt, fetchState, fetched, loadingScreen, SPECIAL_SYSTEMS,
                   particlePositions, particleData, particleSystem, sceneLabels,
                   regionLabels, infoPanel, toggleVars>>
    /\ UNCHANGED <<sceneVars, routeVars, parserVars, events>>

\* The colour specification: catalogs of records with every combination of
\* flags are handed to addStarSystems, and systems of every kind to
\* createStarSystem, with and without the special-systems table
NextColor ==
    \/ \E systemsData \in ColorCatalogs : addStarSystems(systemsData)
    \/ \E source \in {"font", "special"} : \E response \in Responses(source) :
          fetchSettled(source, response)
    \/ initLoadSpecialSystems
    \/ \E data \in ColorSystems : CreateStarSystem(data)

SpecColor == Init /\ [][NextColor]_vars

----------------------------------------------------------------------------
\* Vocabulary of the properties

IdleAuto == autoRotate /\ ~userHasInteracted
UserControlled == ~autoRotate /\ userHasInteracted

InteractionStep == OnControlsStart \/ OnMouseDown
\* what every pointer-move leaves alone
PointerStep == UNCHANGED <<clock, filters, generation, autoRotate>>
FrameStep == clock' # clock /\ animate(clock' - clock)
\* a step of one of the toggle handlers; a setFilters step is the step of
\* setFilters with the resulting toggle set
FilterStep ==
    /\ UNCHANGED <<generation, clock, hoveredSystem, autoRotate>>
    /\ \/ \E k \in FilterKeys : OnCheckboxChange(k)
       \/ \E k \in 1..4 : handleKeyboardShortcuts(k)
       \/ \E k \in FilterKeys : toggleFilter(k)
       \/ setFilters(filters')

\* the visibility predicate of a toggle set: the AND of the toggle-derived
\* predicates that apply to the system
VisibleUnder(system, f) ==
    IF system.isClaimed
    THEN /\ f.showClaimed
         /\ system.primaryPortComplete => f.showPortComplete
         /\ ~system.primaryPortComplete => f.showPortIncomplete
    ELSE f.showUnclaimed

IsCurrent(id) == id[1] = generation

----------------------------------------------------------------------------
\* C1: once an interaction event (controls 'start' or canvas mousedown) has
\* been observed the camera state is USER_CONTROLLED, and no later step of
\* any handler (frames, pointer moves, filter changes, reloads) leaves it.
C1_InteractionIsPermanent ==
    [][/\ InteractionStep => UserControlled'
       /\ UserControlled => UserControlled']_vars

\* a frame rendered in USER_CONTROLLED after a reload and more than a dwell
\* interval of clock time
C1_Witness ==
    /\ UserControlled
    /\ events = <<RenderEv>>
    /\ clock > autoRotateSystemInterval
    /\ generation = 2

\* C2: a processed pointer-move whose picked target differs from the previous
\* hover target emits exactly one hover-end for the previous target (if any)
\* followed by exactly one hover-start and hover callback for the new target
\* (if any), and nothing when the target is unchanged; a ray that meets
\* nothing leaves no hover, with one hover-end for a prior hover.
C2_HoverEventsOnTargetChange ==
    [][\A ray \in Rays(starSystems) : (PointerStep /\ OnMouseMove(ray)) =>
          LET prev == hoveredSystem
              target == hoveredSystem'
          IN  /\ target = newHoveredSystem(starSystems, ray)
              /\ (\A i \in DOMAIN ray : ray[i] = 0) => target = NoSystem
              /\ events' =
                    IF target = prev THEN <<>>
                    ELSE (IF prev # NoSystem THEN <<HoverEnd(prev)>> ELSE <<>>)
                         \o (IF target # NoSystem
                             THEN <<HoverStart(target), HoverCallback(target)>>
                             ELSE <<>>)
              /\ \A i \in DOMAIN starSystems :
                    /\ (starSystems[i].id = target /\ prev # target)
                          => starSystems'[i].isHovered
                    /\ (starSystems[i].id = prev /\ prev # target)
                          => ~starSystems'[i].isHovered]_vars

\* the hover moved from one system to another
C2_Witness ==
    /\ hoveredSystem # NoSystem
    /\ Len(events) = 3
    /\ events[1].type = "setHovered" /\ ~events[1].flag
    /\ events[1].sys # hoveredSystem
    /\ events[2] = HoverStart(hoveredSystem)
    /\ events[3] = HoverCallback(hoveredSystem)

\* C3: the target chosen by a pointer-move pick is a system that is visible
\* under the filters in force at the time of the pick, and it is the nearest
\* of the intersected visible systems.
C3_PickIsVisibleUnderFilters ==
    [][\A ray \in Rays(starSystems) : (PointerStep /\ OnMouseMove(ray)) =>
          LET target == hoveredSystem'
              hits == {i \in DOMAIN starSystems :
                          starSystems[i].isVisible /\ ray[i] > 0}
          IN  /\ (hits # {}) => target # NoSystem
              /\ target # NoSystem =>
                    \E i \in hits :
                        /\ starSystems[i].id = target
                        /\ VisibleUnder(starSystems[i], filters)
                        /\ \A j \in hits : ray[i] <= ray[j]]_vars

\* C4: after a visibility pass with toggle set F a system is visible iff
\* every toggle-derived predicate applicable to it holds; for the catalog
\* {A claimed, port complete; B claimed, port incomplete; C unclaimed} all
\* toggles on shows {A,B,C}, show-unclaimed off shows {A,B}, and
\* show-port-incomplete off as well shows {A}.
ScenarioCatalog ==
    /\ Len(starSystems) = 3
    /\ starSystems[1].isClaimed /\ starSystems[1].primaryPortComplete
    /\ starSystems[2].isClaimed /\ ~starSystems[2].primaryPortComplete
    /\ ~starSystems[3].isClaimed

VisibleSet == {i \in DOMAIN starSystems : starSystems[i].isVisible}

AfterVisibilityPass ==
    /\ Len(events) = 3
    /\ events[2] = Ev("updateSystemVisibility", NoSystem, TRUE, filters)

C4_VisibilityIsAndOfToggles ==
    AfterVisibilityPass =>
        /\ \A i \in DOMAIN starSystems :
              starSystems[i].isVisible = VisibleUnder(starSystems[i], filters)
        /\ ScenarioCatalog =>
              /\ filters = DefaultFilters => VisibleSet = {1, 2, 3}
              /\ filters = [DefaultFilters EXCEPT !.showUnclaimed = FALSE]
                    => VisibleSet = {1, 2}
              /\ filters = [DefaultFilters EXCEPT !.showUnclaimed = FALSE,
                                                  !.showPortIncomplete = FALSE]
                    => VisibleSet = {1}

\* the scenario catalog with show-unclaimed and show-port-incomplete off
C4_Witness ==
    /\ AfterVisibilityPass
    /\ ScenarioCatalog
    /\ filters = [DefaultFilters EXCEPT !.showUnclaimed = FALSE,
                                        !.showPortIncomplete = FALSE]
    /\ VisibleSet = {1}

\* C5: every toggle change (checkbox change, shortcut 1-4, toggleFilter,
\* setFilters) triggers exactly one filters-changed notification carrying the
\* updated toggle set, then one visibility pass over all systems, then the
\* statistics recomputation; afterwards every system's visibility is the one
\* of the updated toggle set.
C5_ToggleChangeDrivesOnePass ==
    [][(FilterStep \/ filters' # filters) =>
          /\ events' = <<Ev("onFiltersChanged", NoSystem, TRUE, filters'),
                         Ev("updateSystemVisibility", NoSystem, TRUE, filters'),
                         Ev("updateStatistics", NoSystem, TRUE, filters')>>
          /\ \A i \in DOMAIN starSystems' :
                starSystems'[i].isVisible = VisibleUnder(starSystems'[i], filters')]_vars

\* a toggle change whose pass left some systems visible and hid others
C5_Witness ==
    /\ AfterVisibilityPass
    /\ events[1] = Ev("onFiltersChanged", NoSystem, TRUE, filters)
    /\ events[3] = Ev("updateStatistics", NoSystem, TRUE, filters)
    /\ \E i \in DOMAIN starSystems : ~starSystems[i].isVisible
    /\ \E i \in DOMAIN starSystems : starSystems[i].isVisible

\* C6: the statistics of the visible systems satisfy: total is the number of
\* visible systems, claimed + unclaimed = total, portComplete + portIncomplete
\* = claimed, and every count is >= 0.
C6_StatisticsAreConsistent ==
    LET stats == getVisibleSystemStats(starSystems)
    IN  /\ stats.total = Cardinality(VisibleSet)
        /\ stats.claimed + stats.unclaimed = stats.total
        /\ stats.portComplete + stats.portIncomplete = stats.claimed
        /\ stats.total >= 0 /\ stats.claimed >= 0 /\ stats.unclaimed >= 0
        /\ stats.portComplete >= 0 /\ stats.portIncomplete >= 0

\* C7: on the transition from IDLE_AUTO to USER_CONTROLLED the orbit and the
\* tour stop: no later frame performs an orbit step or a tour advance; the
\* system that was tour-highlighted receives a hover-end in the first frame
\* after the transition, and from that frame on no system remains
\* highlighted by the tour.
TourHighlights ==
    {i \in DOMAIN starSystems :
        starSystems[i].isHovered /\ starSystems[i].id # hoveredSystem}

C7_TransitionStopsOrbitAndTour ==
    [][/\ (UserControlled /\ FrameStep) =>
             /\ cameraAngle' = cameraAngle
             /\ autoRotateSystemIndex' = autoRotateSystemIndex
             /\ autoRotateSystemTimer' = autoRotateSystemTimer
             /\ \A k \in DOMAIN events' :
                   events'[k] # OrbitEv /\ events'[k].type # "onSystemHover"
                   /\ ~(events'[k].type = "setHovered" /\ events'[k].flag)
             /\ currentAutoRotateSystem # NoSystem =>
                   /\ events' = <<HoverEnd(currentAutoRotateSystem), RenderEv>>
                   /\ \A i \in DOMAIN starSystems' :
                         starSystems'[i].id = currentAutoRotateSystem
                            => ~starSystems'[i].isHovered
             /\ currentAutoRotateSystem' = NoSystem
             /\ TourHighlights' = {}
       /\ (UserControlled /\ currentAutoRotateSystem = NoSystem) =>
             /\ currentAutoRotateSystem' = NoSystem
             /\ TourHighlights = {} => TourHighlights' = {}]_vars

\* the first frame after the transition ended the tour highlight
C7_Witness ==
    /\ UserControlled
    /\ currentAutoRotateSystem = NoSystem
    /\ Len(events) = 2
    /\ events[1].type = "setHovered" /\ ~events[1].flag
    /\ IsCurrent(events[1].sys)
    /\ events[2] = RenderEv

\* the step is a tour advance
TourAdvance == autoRotateSystemTimer' # autoRotateSystemTimer
                  \/ autoRotateSystemIndex' # autoRotateSystemIndex
                  \/ (IdleAuto /\ currentAutoRotateSystem' # currentAutoRotateSystem)

\* what every tour advance does, with the hover-start of the newly dwelt
\* system emitted when start(system) holds
TourAdvanceEffect(start(_)) ==
    LET n == Len(starSystems)
        next == (autoRotateSystemIndex + 1) % n
        dwelt == starSystems[next + 1]
    IN  /\ IdleAuto /\ FrameStep
        /\ n > 0
        /\ clock' - autoRotateSystemTimer > autoRotateSystemInterval
        /\ autoRotateSystemTimer' = clock'
        /\ autoRotateSystemIndex' = next
        /\ currentAutoRotateSystem' = dwelt.id
        /\ events' = <<OrbitEv>>
                     \o (IF currentAutoRotateSystem # NoSystem
                         THEN <<HoverEnd(currentAutoRotateSystem)>> ELSE <<>>)
                     \o (IF start(dwelt)
                         THEN <<HoverStart(dwelt.id), HoverCallback(dwelt.id)>>
                         ELSE <<>>)
                     \o <<RenderEv>>

Always(system) == TRUE
WhenVisible(system) == system.isVisible

\* C8 as stated: in IDLE_AUTO with a non-empty catalog the tour pointer
\* cycles through the entries in insertion order, wrapping around, advancing
\* only after the dwell interval (3000 ms) has elapsed since the previous
\* advance; each advance emits a hover-end for the previously dwelt system
\* and the hover-start (highlight and hover callback) of a manual hover for
\* the newly dwelt system.
C8_TourAdvanceAsStated ==
    [][TourAdvance => TourAdvanceEffect(Always)]_vars

\* C8 as amended: the same, with the hover-start of the newly dwelt system
\* emitted only when that system is visible; an invisible system becomes the
\* dwelt system without any hover-start.
C8_TourAdvance ==
    [][TourAdvance => TourAdvanceEffect(WhenVisible)]_vars

\* the tour wrapped around to the first entry of a catalog of two, ending
\* the highlight of the second entry
C8_Witness ==
    /\ IdleAuto
    /\ Len(starSystems) = 2
    /\ autoRotateSystemIndex = 0
    /\ currentAutoRotateSystem = starSystems[1].id
    /\ events = <<OrbitEv, HoverEnd(starSystems[2].id),
                  HoverStart(starSystems[1].id), HoverCallback(starSystems[1].id),
                  RenderEv>>

\* C9: while in IDLE_AUTO the camera orbits at a constant angular speed
\* (autoRotateSpeed degrees per second) computed from elapsed clock time:
\* each frame turns the camera by the speed times the time since the
\* previous frame, so the angle accumulated over a given time does not
\* depend on the number of frames.
C9_OrbitFollowsElapsedTime ==
    [][(IdleAuto /\ FrameStep) =>
          (cameraAngle' - cameraAngle) % FullTurn
             = (autoRotateSpeed * (clock' - clock)) % FullTurn]_vars

\* C10: in every frame after a reload no entity of the previous catalog
\* remains in the scene and no reference of the scene manager (hovered,
\* selected, tour-highlighted system) points to one.
AfterFrame == events # <<>> /\ events[Len(events)] = RenderEv

C10_ReloadReplacesEverything ==
    AfterFrame =>
        /\ \A i \in DOMAIN starSystems : IsCurrent(starSystems[i].id)
        /\ \A ref \in {hoveredSystem, selectedSystem, currentAutoRotateSystem} :
              ref # NoSystem => IsCurrent(ref)

----------------------------------------------------------------------------
\* C11: after dispose() no animation frame of the scene manager runs any
\* more: no later step reads the clock, turns the camera, advances the tour
\* or renders, whether dispose() was called between two frames or by a
\* callback in the middle of one; the browser holds no frame callback of the
\* disposed scene manager.
C11_NoFrameAfterDispose ==
    [][disposed =>
          /\ ~FrameStep
          /\ UNCHANGED <<clock, autoRotateSystemIndex, autoRotateSystemTimer,
                         currentAutoRotateSystem>>
          /\ \A k \in DOMAIN events' : events'[k] \notin {OrbitEv, RenderEv}
          /\ frameCallbacks = {} /\ frameCallbacks' = {}]_vars

\* a listener running after a dispose() made in the middle of a tour
C11_Witness ==
    /\ disposed
    /\ frameCallbacks = {}
    /\ currentAutoRotateSystem # NoSystem
    /\ clock > autoRotateSystemInterval
    /\ events = <<AutoRotateCallback>>

----------------------------------------------------------------------------
\* The waypoints of a list that resolve: the name is not blank, the loaded
\* data holds a system of that name, and its coordinates are numbers
Resolves(waypoint) ==
    /\ combinedData # NoData
    /\ trim(waypoint.system_name) # <<>>
    /\ \E i \in DOMAIN combinedData :
          /\ combinedData[i].name = waypoint.system_name
          /\ ~parseSystemCoordinates(combinedData[i]).isNull

Resolved(route) == {k \in DOMAIN route : Resolves(route[k])}

\* the markers of all the overlays of a set
RECURSIVE MarkerCount(_)
MarkerCount(overlays) ==
    IF overlays = {} THEN 0
    ELSE LET o == CHOOSE x \in overlays : TRUE
         IN  Len(o.markers) + MarkerCount(overlays \ {o})

SceneMarkerCount == MarkerCount(sceneRoutes)

\* the scene holds no overlay but the one built from the list loaded last
RouteOverlayIsLatestOnly ==
    /\ Cardinality(sceneRoutes) <= 1
    /\ \A overlay \in sceneRoutes :
          /\ overlay = expeditionRoute
          /\ \A k \in DOMAIN overlay.markers :
                \E w \in Resolved(routeData) :
                    routeData[w].system_name = overlay.markers[k].systemName
    /\ Resolved(routeData) = {} => sceneRoutes = {}

\* C12: after any sequence of route loads the scene holds at most one route
\* overlay, built from the list loaded last, and the number of its markers
\* is the number of waypoints of that list that resolve.
C12_RouteMarkersAreOfLastList ==
    /\ RouteOverlayIsLatestOnly
    /\ SceneMarkerCount = Cardinality(Resolved(routeData))

----------------------------------------------------------------------------
\* the position of the system a resolving waypoint names
PositionOf(waypoint) ==
    parseSystemCoordinates(combinedData[find(combinedData, waypoint.system_name)])

\* the positions of the resolving waypoints of a list from waypoint k on, in
\* list order
RECURSIVE ResolvedPositions(_, _)
ResolvedPositions(route, k) ==
    IF k > Len(route) THEN <<>>
    ELSE IF Resolves(route[k])
    THEN <<PositionOf(route[k])>> \o ResolvedPositions(route, k + 1)
    ELSE ResolvedPositions(route, k + 1)

\* C13: once the data are loaded, the polyline of the overlay in the scene
\* runs through the positions of exactly the waypoints of the last list that
\* resolve, in list order; a waypoint with a blank name, an unknown name or
\* coordinates that are not numbers is in neither the polyline nor the
\* markers, and the waypoints after it are still processed. A list without
\* a resolving waypoint leaves no overlay.
C13_PolylineThroughResolvedWaypoints ==
    (combinedData # NoData) =>
        IF Resolved(routeData) = {}
        THEN sceneRoutes = {}
        ELSE /\ sceneRoutes = {expeditionRoute}
             /\ expeditionRoute.line = ResolvedPositions(routeData, 1)
             /\ \A k \in DOMAIN expeditionRoute.markers :
                   \E w \in Resolved(routeData) :
                       /\ routeData[w].system_name = expeditionRoute.markers[k].systemName
                       /\ PositionOf(routeData[w]) = expeditionRoute.markers[k].position
             /\ \A w \in Resolved(routeData) :
                   \E k \in DOMAIN expeditionRoute.markers :
                       routeData[w].system_name = expeditionRoute.markers[k].systemName

\* a second route load whose list names a system whose coordinates are not
\* numbers and then a system that resolves
C13_Witness ==
    /\ combinedData # NoData
    /\ expeditionRoute.id = 2
    /\ Len(routeData) = 2
    /\ routeData[1].system_name = <<"C">>
    /\ routeData[2].system_name = <<"B">>
    /\ sceneRoutes = {expeditionRoute}
    /\ Len(expeditionRoute.line) = 1
    /\ Len(expeditionRoute.markers) = 1

----------------------------------------------------------------------------
\* the waypoint of the last list that gave a marker its status: the last one
\* naming the marker's system
StatusWaypoint(m) ==
    routeData[CHOOSE w \in DOMAIN routeData :
                 /\ routeData[w].system_name = m.systemName
                 /\ \A v \in DOMAIN routeData :
                       routeData[v].system_name = m.systemName => v <= w]

\* C14: every marker of the overlay in the scene carries the status of its
\* waypoint (completed and claimed are the columns reading TRUE) and the
\* permit flag of its system, and its color is green if completed, else
\* orange if claimed, else red if the system requires a permit, else yellow:
\* the first clause that matches wins for each of the eight combinations.
C14_MarkerColorPriority ==
    \A overlay \in sceneRoutes : \A k \in DOMAIN overlay.markers :
        LET m == overlay.markers[k]
            w == StatusWaypoint(m)
        IN  /\ m.completed = (w.completed = "TRUE")
            /\ m.claimed = (w.claimed = "TRUE")
            /\ m.requirePermit =
                  combinedData[find(combinedData, m.systemName)].requirePermit
            /\ m.completed => m.color = "green"
            /\ (~m.completed /\ m.claimed) => m.color = "orange"
            /\ (~m.completed /\ ~m.claimed /\ m.requirePermit) => m.color = "red"
            /\ (~m.completed /\ ~m.claimed /\ ~m.requirePermit) => m.color = "yellow"

\* an overlay with the marker of a claimed, not completed system behind a
\* permit (orange) and the marker of a completed system (green)
C14_Witness ==
    /\ sceneRoutes = {expeditionRoute}
    /\ Len(expeditionRoute.markers) = 2
    /\ LET m1 == expeditionRoute.markers[1]
           m2 == expeditionRoute.markers[2]
       IN  /\ m1.requirePermit /\ m1.claimed /\ ~m1.completed /\ m1.color = "orange"
           /\ ~m2.requirePermit /\ m2.completed /\ m2.color = "green"

----------------------------------------------------------------------------
\* Vocabulary of the catalog properties: the header record and the row
\* records of the text parsed last, and what a row holds under a key

Headers == csvRecords[1]
RowIndices == IF csvRecords = <<>> THEN {} ELSE 2..Len(csvRecords)
Cell(i, key) == property(Headers, csvRecords[i], key)

\* what a row is: complete (a cell for every header cell), without a name,
\* with coordinates that make three numbers, without commander and claim
IsComplete(i) == Len(csvRecords[i]) >= Len(Headers)
NameIsEmpty(i) == trim(Cell(i, "systemName").text) = <<>>
HasCoordinates(i) == ~parseCoordinates(Cell(i, "coordinates")).isNull
NoCommanderAndNotClaimed(i) ==
    cleanText(Cell(i, "cmdrName")) = <<>> /\ ~parseBoolean(Cell(i, "isClaimed"))

\* a valid row: complete, named, with coordinates, and with a commander or a claim
ValidRow(i) ==
    /\ IsComplete(i)
    /\ ~NameIsEmpty(i)
    /\ HasCoordinates(i)
    /\ ~NoCommanderAndNotClaimed(i)

\* C15: in every catalog built from an input the system names are unique:
\* when the input holds two rows with the same name, the catalog holds at
\* most one record for that name (and so does the list of scene entities,
\* which addStarSystems builds one per catalog record).
C15_CatalogNamesUnique ==
    \A i, j \in DOMAIN parserData :
        i # j => parserData[i].systemName # parserData[j].systemName

----------------------------------------------------------------------------
\* every record of the catalog has a non-empty name after normalization
CatalogNamesNotEmpty ==
    \A k \in DOMAIN parserData : parserData[k].systemName # <<>>

\* N rows of which exactly one has no name, the others valid, make N - 1
\* catalog records
OneEmptyNameRowDropped ==
    (/\ \E i \in RowIndices : IsComplete(i) /\ NameIsEmpty(i)
     /\ \A i, j \in RowIndices :
            (IsComplete(i) /\ NameIsEmpty(i) /\ IsComplete(j) /\ NameIsEmpty(j)) => i = j
     /\ \A i \in RowIndices : (IsComplete(i) /\ NameIsEmpty(i)) \/ ValidRow(i))
        => Len(parserData) = Cardinality(RowIndices) - 1

\* C16: a record with an empty name is always dropped: every record of the
\* catalog has a non-empty name after normalization, and N raw rows of which
\* exactly one has an empty name (the others valid) yield N - 1 catalog
\* records.
C16_EmptyNameIsDropped ==
    CatalogNamesNotEmpty /\ OneEmptyNameRowDropped

----------------------------------------------------------------------------
\* the systems the rows from row i on contribute to the catalog: a valid row
\* its normalized system, any other row nothing
RECURSIVE SystemsOfValidRows(_)
SystemsOfValidRows(i) ==
    IF i > Len(csvRecords) THEN <<>>
    ELSE (IF ValidRow(i) THEN <<normalized(Headers, csvRecords[i])>> ELSE <<>>)
         \o SystemsOfValidRows(i + 1)

\* C17: normalization returns null for every row whose commander name is
\* empty and whose claimed flag coerces to false; such a row never appears
\* in the catalog, and ingestion continues with the following rows: the
\* catalog is made of the valid rows before and after it, in their order.
C17_NoCommanderAndNotClaimedIsSkipped ==
    /\ \A i \in RowIndices :
          (IsComplete(i) /\ NoCommanderAndNotClaimed(i))
              => createSystemObject(Headers, csvRecords[i]) = NoSystemObject
    /\ csvRecords # <<>> => parserData = SystemsOfValidRows(2)

\* a row without commander and claim that would otherwise be kept is
\* followed by a valid row, and the catalog is that following row
C17_Witness ==
    /\ Len(csvRecords) = 3
    /\ NoCommanderAndNotClaimed(2)
    /\ IsComplete(2) /\ ~NameIsEmpty(2) /\ HasCoordinates(2)
    /\ ValidRow(3)
    /\ Len(parserData) = 1
    /\ parserData[1].systemName = cleanText(Cell(3, "systemName"))

----------------------------------------------------------------------------
IsFiniteNumber(n) == ~n.isNaN /\ n.inf = 0

\* the parts a delimiter makes of a coordinate text are three finite numbers
ThreeFiniteNumbers(parts) ==
    Len(parts) = 3 /\ \A k \in 1..3 : IsFiniteNumber(parseFloat(trim(parts[k])))

\* some delimiter among '/', ',' and whitespace makes three finite numbers
\* of the coordinate text
YieldsThreeFiniteNumbers(text) ==
    \/ ThreeFiniteNumbers(split(trim(text), "/"))
    \/ ThreeFiniteNumbers(split(trim(text), ","))
    \/ ThreeFiniteNumbers(splitSpaces(trim(text)))

\* the coordinates of every record of the catalog are three finite numbers
CatalogCoordinatesFinite ==
    \A k \in DOMAIN parserData :
        LET coordinates == parserData[k].coordinates
        IN  /\ ~coordinates.isNull
            /\ IsFiniteNumber(coordinates.x)
            /\ IsFiniteNumber(coordinates.y)
            /\ IsFiniteNumber(coordinates.z)

\* a row whose coordinate text makes three finite numbers under no delimiter
\* is dropped
UnparsableCoordinatesDropped ==
    \A i \in RowIndices :
        (IsComplete(i) /\ ~YieldsThreeFiniteNumbers(Cell(i, "coordinates").text))
            => createSystemObject(Headers, csvRecords[i]) = NoSystemObject

\* C18: every record of the catalog has coordinates with three finite
\* numeric components: a row whose coordinate text does not yield three
\* finite numbers under any of the delimiters '/', ',' or whitespace (tried
\* in that order) is dropped, never stored with a default, missing or
\* non-finite component.
C18_CoordinatesAreThreeFiniteNumbers ==
    CatalogCoordinatesFinite /\ UnparsableCoordinatesDropped

----------------------------------------------------------------------------
\* the normalization of the fields (lines 739-753 of createSystemObject:
\* boolean coercion, numeric parsing, text cleaning) applied to a system
\* that is normalized already
normalizeFields(system) ==
    [system EXCEPT
        !.isClaimed = parseBoolean(JsBoolean(@)),
        !.primaryPortComplete = parseBoolean(JsBoolean(@)),
        !.isArchitect = parseBoolean(JsBoolean(@)),
        !.orbitalSlots = parseNumber(JsNumber(@)),
        !.planetarySlots = parseNumber(JsNumber(@)),
        !.asteroidBaseSlots = parseNumber(JsNumber(@)),
        !.narrative = cleanText(JsText(@)),
        !.systemName = cleanText(JsText(@)),
        !.cmdrName = cleanText(JsText(@)),
        !.discordName = cleanText(JsText(@))]

\* the same for the booleans and the numbers alone
normalizeFlagsAndSlots(system) ==
    [system EXCEPT
        !.isClaimed = parseBoolean(JsBoolean(@)),
        !.primaryPortComplete = parseBoolean(JsBoolean(@)),
        !.isArchitect = parseBoolean(JsBoolean(@)),
        !.orbitalSlots = parseNumber(JsNumber(@)),
        !.planetarySlots = parseNumber(JsNumber(@)),
        !.asteroidBaseSlots = parseNumber(JsNumber(@))]

FlagsAndSlotsIdempotent ==
    \A k \in DOMAIN parserData : normalizeFlagsAndSlots(parserData[k]) = parserData[k]

\* C19: normalization is idempotent: for every accepted raw input r,
\* applying the normalization of its fields (text cleaning, boolean
\* coercion, numeric parsing) to the already normalized record yields the
\* same record, normalize(normalize(r)) = normalize(r).
C19_NormalizationIsIdempotent ==
    \A k \in DOMAIN parserData : normalizeFields(parserData[k]) = parserData[k]

----------------------------------------------------------------------------
SlotKeys == {"orbitalSlots", "planetarySlots", "asteroidBaseSlots"}

SlotsOf(system) ==
    [key \in SlotKeys |->
        CASE key = "orbitalSlots" -> system.orbitalSlots
          [] key = "planetarySlots" -> system.planetarySlots
          [] OTHER -> system.asteroidBaseSlots]

\* a text in which no decimal digit follows the leading whitespace and sign
IsNotNumeric(text) ==
    LET body == unsigned(trimStart(text))
    IN  body = <<>> \/ ~IsDigit(Head(body))

\* the slot counts of every record of the catalog are integers >= 0
SlotsAreNotNegative ==
    \A k \in DOMAIN parserData : \A key \in SlotKeys : SlotsOf(parserData[k])[key] \in Nat

\* a cell that does not parse as a number is normalized to 0
NotNumericSlotsAreZero ==
    \A i \in RowIndices : \A key \in SlotKeys :
        (IsComplete(i) /\ IsNotNumeric(Cell(i, key).text))
            => SlotsOf(normalized(Headers, csvRecords[i]))[key] = 0

\* C20: after normalization orbitalSlots, planetarySlots and the asteroid
\* base slots are integers >= 0 for every input text; text that does not
\* parse as a number yields 0 and parsing never throws.
C20_SlotsAreNonNegativeIntegers ==
    SlotsAreNotNegative /\ NotNumericSlotsAreZero

----------------------------------------------------------------------------
\* C26: whenever hoveredSystem points to a system, that system is in the
\* scene with isHovered = true; this holds for every interleaving of frames,
\* pointer moves, interaction events, filter changes and reloads, the
\* pointer-move over the tour-highlighted system between the first
\* interaction event and the next frame included.
C26_HoveredSystemIsHighlighted ==
    hoveredSystem # NoSystem =>
        \E i \in DOMAIN starSystems :
            starSystems[i].id = hoveredSystem /\ starSystems[i].isHovered

\* C27: after any sequence of filter changes and reloads the visibility flag
\* of every system equals the visibility predicate under the toggles in
\* force.
C27_VisibilityFollowsToggles ==
    \A i \in DOMAIN starSystems :
        starSystems[i].isVisible = VisibleUnder(starSystems[i], filters)

\* C28: a hovered system, by pointer or by the tour, is visible: when a
\* filter change hides it the hover has ended by the end of that visibility
\* pass.
C28_HoveredSystemIsVisible ==
    \A i \in DOMAIN starSystems :
        (starSystems[i].isHovered \/ starSystems[i].id = hoveredSystem)
            => starSystems[i].isVisible

----------------------------------------------------------------------------
\* Vocabulary of the load properties

Settled(source) == fetchState[source] \in {"fulfilled", "rejected"}

\* the auxiliary sources: the route list, the expedition sheets, the anchor
\* table and the special-systems table
AuxiliarySources == {"route", "expedition", "anchors", "special"}

\* init() has gone through the build and hidden the loading screen
LoadCompleted ==
    /\ initAt = "done"
    /\ loadingScreen = "hidden"
    /\ particleSystem.created
    /\ combinedData # NoData => Len(combinedData) = Len(fetched["systems"])

\* some star, point cloud, region label or route overlay is in the scene
EntityConstructed ==
    \/ stars # <<>>
    \/ particleSystem.created
    \/ sceneLabels # <<>>
    \/ sceneRoutes # {}

HasPosition(system) == ~parseSystemCoordinates(system).isNull

\* detailed by the rule of the catalog: populated, or of a special category
IsDetailed(system) ==
    \/ (system.information.isObject
           /\ system.information.population.type = "number"
           /\ system.information.population.num > 0)
    \/ \E i \in DOMAIN SPECIAL_SYSTEMS : SPECIAL_SYSTEMS[i].name = system.name

Placed(system) == [name |-> system.name, position |-> parseSystemCoordinates(system)]

\* C21: the failure or absence of an auxiliary source (route list,
\* expedition sheets, anchor table, special-systems table) never prevents
\* the load: whenever the fetch of the primary catalog succeeds, init() does
\* not end in its error branch, and once every request has settled and
\* init() has resumed the entities are built and the loading screen is hidden.
C21_AuxiliaryFailureIsNotFatal ==
    fetchState["systems"] = "fulfilled" =>
        /\ initAt # "failed"
        /\ loadingScreen # "error"
        /\ initAt \notin {"font", "special", "data"} => LoadCompleted

\* C22: for every completion order of the requests, no scene entity (star,
\* point cloud, region label, route overlay) is constructed before every
\* request has settled.
C22_BuildWaitsForAllFetches ==
    EntityConstructed => \A source \in Sources : Settled(source)

\* a scene with a star, a particle, a region label and a route overlay,
\* built after the expedition sheets failed to load
C22_Witness ==
    /\ initAt = "done"
    /\ stars # <<>>
    /\ particleData # <<>>
    /\ sceneLabels # <<>>
    /\ sceneRoutes # {}
    /\ fetchState["expedition"] = "rejected"
    /\ fetchState["font"] = "rejected"

C29_RouteFollowsRouteToggleOnly ==
    expeditionRoute # NoRoute =>
        /\ routeVisible = showExpeditionRoute
        /\ \A i \in DOMAIN markerVisible :
              (routeVisible /\ markerVisible[i]) = showExpeditionRoute

\* C30: after the initial load each anchor with a non-empty description whose
\* system is in the catalog, with coordinates, has exactly one region label.
C30_OneLabelPerAnchor ==
    initAt = "done" =>
        \A k \in DOMAIN fetched["anchors"] :
            LET anchor == fetched["anchors"][k]
            IN  (/\ anchor.description # <<>>
                 /\ \E i \in DOMAIN combinedData :
                       combinedData[i].name = anchor.name /\ HasPosition(combinedData[i]))
                => Cardinality({j \in DOMAIN sceneLabels :
                                   sceneLabels[j].anchor = anchor.name}) = 1

----------------------------------------------------------------------------
\* C24: each point of the cloud is tied by index to its source record: the
\* position buffer holds exactly three coordinates per entry of the side
\* table, in the same order, and a pick that meets point i of the cloud (the
\* point index the ray intersection reports) shows the record of entry i.
C24_PointResolvesToItsRecord ==
    [][/\ Len(particleSystem.position) = 3 * Len(particleSystem.particleData)
       /\ \A i \in DOMAIN particleSystem.particleData :
             LET entry == particleSystem.particleData[i]
             IN  <<particleSystem.position[3 * i - 2], particleSystem.position[3 * i - 1],
                   particleSystem.position[3 * i]>>
                    = <<entry.position.x, entry.position.y, entry.position.z>>
       /\ \A hit \in Hits :
             (hit.star = 0 /\ hit.point # 0 /\ onMouseMoveCsv(hit)) =>
                 infoPanel' = [isNull |-> FALSE,
                               name |-> particleSystem.particleData[hit.point].name]]_vars

----------------------------------------------------------------------------
\* the special entry of a star's name, with its colour
SpecialOf(star) == special(SPECIAL_SYSTEMS, star.name)

\* preset (ii), stated on the stars of main.js
PopulationRule ==
    \A i \in DOMAIN stars :
        stars[i].color =
            IF stars[i].completed THEN "0x00ff00"
            ELSE IF ~SpecialOf(stars[i]).isUndefined THEN SpecialOf(stars[i]).color
            ELSE IF stars[i].systemInfo > 0 THEN "0x800080"
            ELSE "0xFFFFFF"

\* C25, as amended: the colour of a detailed entity is decided by an ordered
\* rule in which the first matching clause wins: (i) for a StarSystem,
\* unclaimed (red) > claimed and port complete (green) > claimed and port
\* incomplete (orange), whatever completed-route or special-category flag the
\* record carries; (ii) for a star of main.js, completed-route (green) >
\* special-category colour > populated (purple) > unpopulated (white).
C25_ColorFollowsOrderedRule ==
    /\ \A i \in DOMAIN starSystems :
          starSystems[i].color =
              IF ~starSystems[i].data.isClaimed THEN "0xff4444"
              ELSE IF starSystems[i].data.primaryPortComplete THEN "0x00ff88"
              ELSE "0xffaa00"
    /\ PopulationRule

\* a completed-route, special-category, port-complete record that is not
\* claimed is red, and a completed special star of main.js is green
C25_Witness ==
    /\ \E i \in DOMAIN starSystems :
          /\ starSystems[i].data.completed /\ starSystems[i].data.special
          /\ ~starSystems[i].data.isClaimed /\ starSystems[i].data.primaryPortComplete
          /\ starSystems[i].color = "0xff4444"
    /\ \E i \in DOMAIN stars :
          /\ stars[i].completed /\ ~SpecialOf(stars[i]).isUndefined
          /\ stars[i].systemInfo > 0
          /\ stars[i].color = "0x00ff00"

\* C25, as stated: in preset (i) too the completed-route clause and then the
\* special-category clause come before the claim and port clauses.
C25_CompletedAndSpecialComeFirst ==
    /\ \A i \in DOMAIN starSystems :
          starSystems[i].color =
              IF starSystems[i].data.completed THEN "0x00ff00"
              ELSE IF starSystems[i].data.special THEN "0xFFD700"
              ELSE IF ~starSystems[i].data.isClaimed THEN "0xff4444"
              ELSE IF starSystems[i].data.primaryPortComplete THEN "0x00ff88"
              ELSE "0xffaa00"
    /\ PopulationRule

====
